---------------------------- MODULE Spec2Model ----------------------------
(***************************************************************************)
(* Meeting-Transcriber: the response parser (summarizer_bedrock.py), the   *)
(* notes renderer (format_meeting_notes.py) and the speaker-segment        *)
(* reconstruction (aws_transcribe.py), as state machines over texts.       *)
(*                                                                         *)
(* A text is a TLA+ string; Ch(s, i) is its i-th character.  The character *)
(* set of the inputs is ASCII; the bullet marker U+2022 of the regular     *)
(* expressions is not part of it, so the bullet class is {"-", "*"}.       *)
(* Python's None is the empty sequence <<>>, an optional text t is <<t>>.  *)
(***************************************************************************)
EXTENDS Integers, Sequences, FiniteSets, TLC

(***************************************************************************)
(* Characters and Python's str methods                                     *)
(***************************************************************************)
Ch(s, i) == SubSeq(s, i, i)

UpperChars == "ABCDEFGHIJKLMNOPQRSTUVWXYZ"
LowerChars == "abcdefghijklmnopqrstuvwxyz"
DigitChars == "0123456789"

InChars(c, cs) == \E i \in 1..Len(cs) : Ch(cs, i) = c

IsUpper(c) == InChars(c, UpperChars)
IsLower(c) == InChars(c, LowerChars)
IsAlpha(c) == IsUpper(c) \/ IsLower(c)
IsDigit(c) == InChars(c, DigitChars)
IsSpace(c) == c \in {" ", "\t", "\n"}
IsBullet(c) == c \in {"-", "*"}

MinOf(S) == CHOOSE x \in S : \A y \in S : x <= y
MaxOf(S) == CHOOSE x \in S : \A y \in S : x >= y

\* str.lower() on one character
LowerCh(c) ==
    IF IsUpper(c)
    THEN Ch(LowerChars, CHOOSE i \in 1..Len(UpperChars) : Ch(UpperChars, i) = c)
    ELSE c

RECURSIVE StrLower(_)
StrLower(s) == IF s = "" THEN "" ELSE LowerCh(Ch(s, 1)) \o StrLower(Tail(s))

\* the text from position i to the end (Python s[i-1:])
From(s, i) == SubSeq(s, i, Len(s))

\* s.startswith(p) at position i
StartsAt(s, i, p) == i + Len(p) - 1 <= Len(s) /\ SubSeq(s, i, i + Len(p) - 1) = p

\* first position >= i whose character is not in the class, Len(s)+1 if none
SkipSpace(s, i) ==
    MinOf({j \in i..Len(s) : ~IsSpace(Ch(s, j))} \cup {Len(s) + 1})

LStrip(s) == From(s, SkipSpace(s, 1))
RStrip(s) ==
    SubSeq(s, 1, MaxOf({j \in 1..Len(s) : ~IsSpace(Ch(s, j))} \cup {0}))
Strip(s) == LStrip(RStrip(s))

\* str.rstrip(':')
RStripColon(s) ==
    SubSeq(s, 1, MaxOf({j \in 1..Len(s) : Ch(s, j) # ":"} \cup {0}))

\* first position >= i where p occurs in s, 0 if none (str.find, 1-based)
Find(s, p, i) ==
    LET hits == {j \in i..(Len(s) - Len(p) + 1) : StartsAt(s, j, p)}
    IN  IF hits = {} THEN 0 ELSE MinOf(hits)

\* p in s
Contains(s, p) == Find(s, p, 1) # 0

\* str.split(sep) for a non-empty separator
RECURSIVE Split(_, _)
Split(s, sep) ==
    LET k == Find(s, sep, 1)
    IN  IF k = 0 THEN <<s>>
        ELSE <<SubSeq(s, 1, k - 1)>> \o Split(From(s, k + Len(sep)), sep)

\* sep.join(parts)
RECURSIVE Join(_, _)
Join(parts, sep) ==
    IF parts = <<>> THEN ""
    ELSE IF Len(parts) = 1 THEN parts[1]
    ELSE parts[1] \o sep \o Join(Tail(parts), sep)

\* str(i) for a small natural number
RECURSIVE IntToStr(_)
IntToStr(n) ==
    IF n < 10 THEN Ch(DigitChars, n + 1)
    ELSE IntToStr(n \div 10) \o Ch(DigitChars, (n % 10) + 1)

(***************************************************************************)
(* Python dict with insertion order: a sequence of <<key, value>> pairs    *)
(***************************************************************************)
DictHas(d, k) == \E i \in 1..Len(d) : d[i][1] = k
DictGet(d, k) == d[CHOOSE i \in 1..Len(d) : d[i][1] = k][2]
DictPut(d, k, v) ==
    IF DictHas(d, k)
    THEN [i \in 1..Len(d) |-> IF d[i][1] = k THEN <<k, v>> ELSE d[i]]
    ELSE Append(d, <<k, v>>)
DictKeys(d) == {d[i][1] : i \in 1..Len(d)}


(***************************************************************************)
(* The regular expressions of summarizer_bedrock.py                        *)
(***************************************************************************)
\* length of the match of ^#+\s+ at the start of the line, 0 if none
HeadingLen(line) ==
    LET n == Len(line)
        h == MinOf({j \in 1..n : Ch(line, j) # "#"} \cup {n + 1})
        w == SkipSpace(line, h)
    IN  IF h = 1 \/ w = h THEN 0 ELSE w - 1

IsHeading(line) == HeadingLen(line) > 0

\* re.sub(r'^#+\s+', '', line).strip()
HeadingName(line) == Strip(From(line, HeadingLen(line) + 1))

\* re.match(r'^###\s+', line)
IsSubHeading(line) == StartsAt(line, 1, "###") /\ Len(line) >= 4 /\ IsSpace(Ch(line, 4))

\* re.sub(r'^###\s+', '', line).strip()
SubHeadingName(line) == Strip(From(line, SkipSpace(line, 4)))

\* re.match(r'^[A-Za-z\s]+:', line.strip())
IsInlineLabel(line) ==
    LET t == Strip(line)
        c == Find(t, ":", 1)
    IN  c > 1 /\ \A j \in 1..(c - 1) : IsAlpha(Ch(t, j)) \/ IsSpace(Ch(t, j))

\* position after the list marker (?:[-*]|\d+\.) that starts at i, 0 if there
\* is none; the numeric form only when numbered
MarkerEnd(s, i, numbered) ==
    IF i > Len(s) THEN 0
    ELSE IF IsBullet(Ch(s, i)) THEN i + 1
    ELSE IF numbered /\ IsDigit(Ch(s, i))
         THEN LET e == MinOf({j \in i..Len(s) : ~IsDigit(Ch(s, j))} \cup {Len(s) + 1})
              IN  IF e <= Len(s) /\ Ch(s, e) = "." THEN e + 1 ELSE 0
    ELSE 0

\* the marker followed by \s+ matches at i
SpaceAfterMarker(s, m) == m # 0 /\ m <= Len(s) /\ IsSpace(Ch(s, m))
ItemStartsAt(s, i, numbered) == SpaceAfterMarker(s, MarkerEnd(s, i, numbered))

\* mutant: an item ends with its line
MutItemEndsAt(s, e, numbered) == e = Len(s) + 1 \/ Ch(s, e) = "\n"

\* the lookahead (?=\n[-*]|\n\n|$), with |\n\d+\. when numbered, holds at e
ItemEndsAt(s, e, numbered) ==
    \/ e = Len(s) + 1
    \/ e = Len(s) /\ Ch(s, e) = "\n"
    \/ /\ e < Len(s)
       /\ Ch(s, e) = "\n"
       /\ \/ IsBullet(Ch(s, e + 1))
          \/ Ch(s, e + 1) = "\n"
          \/ numbered /\ MarkerEnd(s, e + 1, TRUE) # 0

\* re.findall(r'[-*]\s+(.*?)(?=\n[-*]|\n\n|$)', s, re.DOTALL) from position
\* pos on, and its numbered variant
\* re.findall(r'(?:[-*]|\d+\.)\s+(.*?)(?=\n(?:[-*]|\d+\.|\n)|$)', s, re.DOTALL)
RECURSIVE FindAllFrom(_, _, _)
\* the group from j to e-1, then the search goes on at e
MatchThenRest(s, j, e, numbered) ==
    <<SubSeq(s, j, e - 1)>> \o FindAllFrom(s, e, numbered)

\* (.*?): the group starts at j and ends at the first place the lookahead holds
MatchGroupFrom(s, j, numbered) ==
    MatchThenRest(s, j, MinOf({k \in j..(Len(s) + 1) : ItemEndsAt(s, k, numbered)}),
                  numbered)

\* the leftmost match starts at the first position of starts
MatchFirstOf(s, starts, numbered) ==
    IF starts = {} THEN <<>>
    ELSE MatchGroupFrom(s, SkipSpace(s, MarkerEnd(s, MinOf(starts), numbered)),
                        numbered)

FindAllFrom(s, pos, numbered) ==
    MatchFirstOf(s, {i \in pos..Len(s) : ItemStartsAt(s, i, numbered)}, numbered)

FindBullets(s) == FindAllFrom(s, 1, FALSE)
FindItems(s) == FindAllFrom(s, 1, TRUE)

\* [p.strip() for p in points]
StripAll(items) == [i \in 1..Len(items) |-> Strip(items[i])]

\* [f"**{label}**: {p.strip()}" for p in points]
PrefixAll(label, items) ==
    [i \in 1..Len(items) |-> "**" \o label \o "**: " \o Strip(items[i])]

(***************************************************************************)
(* The owner annotation, in both files                                     *)
(***************************************************************************)
\* the text from a to b-1 without its leading white space; when it is all
\* white space, \s* gives one character back to the group
GroupAfterSpace(s, a, b) ==
    IF SkipSpace(s, a) < b THEN SubSeq(s, SkipSpace(s, a), b - 1)
    ELSE SubSeq(s, b - 1, b - 1)

\* the match of \(Owner:\s*([^,)]+)(?:,\s*Deadline:\s*([^)]+))?\) at i:
\* <<>> if none, else <<[g1, g2]>> with g2 an optional text
OwnerDeadlineAt(s, i) ==
    IF ~StartsAt(s, i, "(Owner:") THEN <<>>
    ELSE
    LET p == i + 7
        r == MinOf({j \in p..Len(s) : Ch(s, j) \in {",", ")"}} \cup {Len(s) + 1})
    IN  IF r = p \/ r > Len(s) THEN <<>>
        ELSE IF Ch(s, r) = ")"
        THEN <<[g1 |-> GroupAfterSpace(s, p, r), g2 |-> <<>>]>>
        ELSE
        LET q == SkipSpace(s, r + 1)
            t == q + 9
            tend == MinOf({j \in t..Len(s) : Ch(s, j) = ")"} \cup {Len(s) + 1})
        IN  IF StartsAt(s, q, "Deadline:") /\ tend > t /\ tend <= Len(s)
            THEN <<[g1 |-> GroupAfterSpace(s, p, r),
                    g2 |-> <<GroupAfterSpace(s, t, tend)>>]>>
            ELSE <<>>

\* re.search: of the matches at the positions 1..Len(s) the leftmost one
FirstMatch(ms) ==
    IF \A i \in 1..Len(ms) : ms[i] = <<>> THEN <<>>
    ELSE ms[MinOf({i \in 1..Len(ms) : ms[i] # <<>>})]

\* re.search(r'\(Owner:\s*([^,)]+)(?:,\s*Deadline:\s*([^)]+))?\)', item)
SearchOwnerDeadline(s) == FirstMatch([i \in 1..Len(s) |-> OwnerDeadlineAt(s, i)])

\* the match of \(Owner:\s*([^)]+)\) at i
OwnerAt(s, i) ==
    IF ~StartsAt(s, i, "(Owner:") THEN <<>>
    ELSE
    LET p == i + 7
        r == MinOf({j \in p..Len(s) : Ch(s, j) = ")"} \cup {Len(s) + 1})
    IN  IF r = p \/ r > Len(s) THEN <<>>
        ELSE <<[g1 |-> GroupAfterSpace(s, p, r)]>>

\* re.search(r'\(Owner:\s*([^)]+)\)', item)
SearchOwner(s) == FirstMatch([i \in 1..Len(s) |-> OwnerAt(s, i)])

\* last position of the match of \s*\(Owner:.*?\) that starts at i, 0 if none
OwnerParenEnd(s, i) ==
    LET w == SkipSpace(s, i)
        c == MinOf({j \in (w + 7)..Len(s) : Ch(s, j) \in {")", "\n"}} \cup {Len(s) + 1})
    IN  IF StartsAt(s, w, "(Owner:") /\ c <= Len(s) /\ Ch(s, c) = ")" THEN c ELSE 0

\* re.sub(r'\s*\(Owner:.*?\)', '', item)
RECURSIVE SubOwner(_)
\* the leftmost match, at the first position of hits, is removed
SubFirstOf(s, hits) ==
    IF hits = {} THEN s
    ELSE SubSeq(s, 1, MinOf(hits) - 1)
         \o SubOwner(From(s, OwnerParenEnd(s, MinOf(hits)) + 1))

SubOwner(s) == SubFirstOf(s, {i \in 1..Len(s) : OwnerParenEnd(s, i) # 0})

(***************************************************************************)
(* parse_bedrock_response: the section splitter                            *)
(***************************************************************************)
\* Python truth value of an optional text (None and '' are false)
Truthy(o) == o # <<>> /\ o[1] # ""

\* '\n'.join(current_content).strip()
Body(content) == Strip(Join(content, "\n"))

\* the guard of the two saves of the section loop
SaveSection(cur, content) == Truthy(cur) /\ content # <<>>

\* the loop over response_text.split('\n') and the save after it;
\* cur is current_section (None at first), content is current_content
RECURSIVE SectionLoop(_, _, _, _)
SectionLoop(lines, secs, cur, content) ==
    IF lines = <<>>
    THEN IF SaveSection(cur, content)
         THEN DictPut(secs, StrLower(cur[1]), Body(content))
         ELSE secs
    ELSE LET line == Head(lines)
         IN  IF IsHeading(line)
             THEN IF SaveSection(cur, content)
                  THEN SectionLoop(Tail(lines),
                                   DictPut(secs, StrLower(cur[1]), Body(content)),
                                   <<HeadingName(line)>>, <<>>)
                  ELSE SectionLoop(Tail(lines), secs, <<HeadingName(line)>>, content)
             ELSE IF Truthy(cur)
                  THEN SectionLoop(Tail(lines), secs, cur, Append(content, line))
                  ELSE SectionLoop(Tail(lines), secs, cur, content)

SplitSections(text) == SectionLoop(Split(text, "\n"), <<>>, <<>>, <<>>)

\* for key in [...]: if key in sections: ...; break -- the key that is used
RECURSIVE FirstKey(_, _)
FirstKey(secs, keys) ==
    IF keys = <<>> THEN <<>>
    ELSE IF DictHas(secs, Head(keys)) THEN <<Head(keys)>>
    ELSE FirstKey(secs, Tail(keys))

SummaryKeys == <<"summary", "meeting summary">>
KeyPointKeys == <<"key takeaways", "takeaways", "key points">>
ActionItemKeys == <<"action items", "next steps", "actions", "tasks">>
DecisionKeys == <<"decisions", "decisions made", "key decisions">>
TechnicalKeys == <<"technical details", "technical specifications", "technical information">>
CostKeys == <<"cost", "cost and resource considerations", "financial considerations">>
RiskKeys == <<"risks", "risks and issues", "challenges", "concerns">>

(***************************************************************************)
(* parse_bedrock_response: subsections and list extraction                 *)
(***************************************************************************)
\* the loop over sections[key].split('\n') and the save after it
RECURSIVE SubsectionLoop(_, _, _, _)
SubsectionLoop(lines, subs, cur, content) ==
    IF lines = <<>>
    THEN IF content # <<>> THEN DictPut(subs, cur, Body(content)) ELSE subs
    ELSE LET line == Head(lines)
             saved == IF content # <<>> THEN DictPut(subs, cur, Body(content)) ELSE subs
         IN  IF IsSubHeading(line)
             THEN SubsectionLoop(Tail(lines), saved, SubHeadingName(line), <<>>)
             ELSE IF IsInlineLabel(line)
             THEN SubsectionLoop(Tail(lines), saved, Strip(line), <<>>)
             ELSE SubsectionLoop(Tail(lines), subs, cur, Append(content, line))

SplitSubsections(body) == SubsectionLoop(Split(body, "\n"), <<>>, "General", <<>>)

\* the list extraction of the key takeaways (bullets only) ...
KeyPointFindAll(content) == FindBullets(content)
\* mutant: the action items use the bullet-only expression
MutActionItemFindAll(content) == FindBullets(content)

\* ... and of the action items (bullets or numbers)
ActionItemFindAll(content) == FindItems(content)

\* for subsection, content in subsections.items(): ... extend(...)
\* re.findall of the section at hand: action items or key takeaways
SectionFindAll(content, numbered) ==
    IF numbered THEN ActionItemFindAll(content) ELSE KeyPointFindAll(content)

\* mutant: the items of a labelled subsection are not prefixed
MutSubsectionEntry(name, found) == StripAll(found)

\* what one subsection adds: its items, prefixed unless it is "General"
SubsectionEntry(name, found) ==
    IF name # "General" THEN PrefixAll(RStripColon(name), found)
    ELSE StripAll(found)

RECURSIVE SubsectionItems(_, _)
SubsectionItems(subs, numbered) ==
    IF subs = <<>> THEN <<>>
    ELSE SubsectionEntry(Head(subs)[1], SectionFindAll(Head(subs)[2], numbered))
         \o SubsectionItems(Tail(subs), numbered)

\* "if not key_points:" / "if not action_items:" -- the whole section is searched
OrWholeSection(bySub, body, numbered) ==
    IF bySub # <<>> THEN bySub ELSE StripAll(SectionFindAll(body, numbered))

\* the body of "if key in sections" for key takeaways and action items
SectionItems(body, numbered) ==
    OrWholeSection(SubsectionItems(SplitSubsections(body), numbered), body, numbered)

\* the decisions / technical / cost / risk loops: the items of the first
\* listed section that has any, each prefixed with the label
RECURSIVE LabelledItems(_, _, _)
\* mutant: the items are appended without their label
MutLabelledOrNext(found, secs, keys, label) ==
    IF found # <<>> THEN StripAll(found)
    ELSE LabelledItems(secs, Tail(keys), label)

\* "if items: key_points.extend(...); break", else the next key
LabelledOrNext(found, secs, keys, label) ==
    IF found # <<>> THEN PrefixAll(label, found)
    ELSE LabelledItems(secs, Tail(keys), label)

LabelledItems(secs, keys, label) ==
    IF keys = <<>> THEN <<>>
    ELSE LabelledOrNext(IF DictHas(secs, Head(keys))
                        THEN FindItems(DictGet(secs, Head(keys))) ELSE <<>>,
                        secs, keys, label)

(***************************************************************************)
(* parse_bedrock_response: heuristics and owner normalisation              *)
(***************************************************************************)
\* [p for p in response_text.split('\n\n') if p.strip()]
Paragraphs(text) == SelectSeq(Split(text, "\n\n"), LAMBDA p : Strip(p) # "")

\* mutant: the split point of the simpler formatter variant
MutSplitPoint(n) == IF n < 7 THEN n ELSE 7

\* split_point = min(10, len(all_bullets))
SplitPoint(n) == IF n < 10 THEN n ELSE 10

\* Python slice list[a:b] (0-based, b exclusive)
Slice(list, a, b) ==
    SubSeq(list, a + 1, IF b < Len(list) THEN b ELSE Len(list))

\* all_bullets[:split_point]
HeuristicKeyPoints(bullets) ==
    StripAll(Slice(bullets, 0, SplitPoint(Len(bullets))))

\* all_bullets[split_point:split_point+5]
HeuristicActionItems(bullets) ==
    StripAll(Slice(bullets, SplitPoint(Len(bullets)), SplitPoint(Len(bullets)) + 5))

\* "if not summary and not key_points and not action_items"
NothingExtracted(sum, kps, ais) == sum = "" /\ kps = <<>> /\ ais = <<>>

\* owner_match.group(2).strip() if owner_match.group(2) else None
DeadlineOf(m) == IF Truthy(m.g2) THEN <<Strip(m.g2[1])>> ELSE <<>>

\* one round of the loop "for item in action_items" at the end of the parser
NormalizeOwner(item, m, text) ==
    IF m = <<>> THEN item
    ELSE LET owner == Strip(m[1].g1)
             deadline == DeadlineOf(m[1])
         IN  IF Truthy(deadline)
             THEN text \o " (Owner: " \o owner \o ", Deadline: " \o deadline[1] \o ")"
             ELSE text \o " (Owner: " \o owner \o ")"

ProcessActionItem(item) ==
    NormalizeOwner(item, SearchOwnerDeadline(item), Strip(SubOwner(item)))

ProcessActionItems(items) == [i \in 1..Len(items) |-> ProcessActionItem(items[i])]

(***************************************************************************)
(* format_meeting_notes.py: category prefixes                              *)
(***************************************************************************)
\* (.*) without DOTALL, from position a: up to the end of the line
RestOfLine(s, a) ==
    SubSeq(s, a, MinOf({j \in a..Len(s) : Ch(s, j) = "\n"} \cup {Len(s) + 1}) - 1)

\* re.match(r'\*\*([^*]+)\*\*:\s*(.*)', point): <<>> or <<[g1, g2]>>
CategoryMatch(s) ==
    LET e == MinOf({j \in 3..Len(s) : Ch(s, j) = "*"} \cup {Len(s) + 1})
    IN  IF StartsAt(s, 1, "**") /\ e > 3 /\ StartsAt(s, e, "**:")
        THEN <<[g1 |-> SubSeq(s, 3, e - 1),
                g2 |-> RestOfLine(s, SkipSpace(s, e + 3))]>>
        ELSE <<>>

\* re.match(r'([A-Za-z]+):\s*(.*)', point)
PlainCategoryMatch(s) ==
    LET e == MinOf({j \in 1..Len(s) : ~IsAlpha(Ch(s, j))} \cup {Len(s) + 1})
    IN  IF e > 1 /\ e <= Len(s) /\ Ch(s, e) = ":"
        THEN <<[g1 |-> SubSeq(s, 1, e - 1),
                g2 |-> RestOfLine(s, SkipSpace(s, e + 1))]>>
        ELSE <<>>

\* mutant: a new category is put before the categories seen so far
MutDictAppend(d, k, v) ==
    IF DictHas(d, k) THEN DictPut(d, k, Append(DictGet(d, k), v))
    ELSE <<<<k, <<v>>>>>> \o d

\* dict[category].append(content), creating the list when the key is new
DictAppend(d, k, v) ==
    DictPut(d, k, IF DictHas(d, k) THEN Append(DictGet(d, k), v) ELSE <<v>>)

NoPoints ==
    [categorized |-> <<>>, decisions |-> <<>>, technical |-> <<>>,
     cost |-> <<>>, risks |-> <<>>, uncategorized |-> <<>>]

\* one round of "for point in key_points", given the two matches
RoutePoint(acc, point, cm, pm) ==
        IF cm # <<>>
        THEN LET category == Strip(cm[1].g1)
                 content == Strip(cm[1].g2)
             IN  IF StrLower(category) = "decision"
                 THEN [acc EXCEPT !.decisions = Append(@, content)]
                 ELSE IF StrLower(category) = "technical"
                 THEN [acc EXCEPT !.technical = Append(@, content)]
                 ELSE IF StrLower(category) = "cost"
                 THEN [acc EXCEPT !.cost = Append(@, content)]
                 ELSE IF StrLower(category) = "risk"
                 THEN [acc EXCEPT !.risks = Append(@, content)]
                 ELSE [acc EXCEPT !.categorized = DictAppend(@, category, content)]
        ELSE IF pm # <<>>
        THEN [acc EXCEPT !.categorized =
                 DictAppend(@, Strip(pm[1].g1), Strip(pm[1].g2))]
        ELSE [acc EXCEPT !.uncategorized = Append(@, point)]

\* mutant: no dedicated list for the reserved category Technical
MutCategorizePoint(acc, point) ==
    LET cm == CategoryMatch(point)
    IN  IF cm # <<>>
        THEN [acc EXCEPT !.categorized =
                 DictAppend(@, Strip(cm[1].g1), Strip(cm[1].g2))]
        ELSE [acc EXCEPT !.uncategorized = Append(@, point)]

CategorizePoint(acc, point) ==
    RoutePoint(acc, point, CategoryMatch(point), PlainCategoryMatch(point))

RECURSIVE CategorizePoints(_, _)
CategorizePoints(acc, points) ==
    IF points = <<>> THEN acc
    ELSE CategorizePoints(CategorizePoint(acc, Head(points)), Tail(points))

\* one round of "for item in action_items" (grouping by category)
RouteAction(acc, item, cm) ==
    IF cm # <<>>
    THEN [acc EXCEPT !.categorized =
             DictAppend(@, Strip(cm[1].g1), Strip(cm[1].g2))]
    ELSE [acc EXCEPT !.uncategorized = Append(@, item)]

CategorizeAction(acc, item) == RouteAction(acc, item, CategoryMatch(item))

RECURSIVE CategorizeActions(_, _)
CategorizeActions(acc, items) ==
    IF items = <<>> THEN acc
    ELSE CategorizeActions(CategorizeAction(acc, Head(items)), Tail(items))

(***************************************************************************)
(* format_meeting_notes.py: infer_owner_from_text                          *)
(***************************************************************************)
\* p.get(key): the value, None if the key is absent
\* a participant is [name, id, role, organization], each an optional text
ParticipantName(p) ==
    IF p.name # <<>> THEN p.name[1] ELSE IF p.id # <<>> THEN p.id[1] ELSE ""

\* [p.get('name', p.get('id', '')) for p in participants
\*     if p.get('name') or p.get('id')]
RECURSIVE ParticipantNames(_)
ParticipantNames(ps) ==
    IF ps = <<>> THEN <<>>
    ELSE (IF Truthy(Head(ps).name) \/ Truthy(Head(ps).id)
          THEN <<ParticipantName(Head(ps))>> ELSE <<>>)
         \o ParticipantNames(Tail(ps))

\* position after the match of [A-Z][a-z]+ at i, 0 if none
NameEnd(s, i) ==
    IF i < Len(s) /\ IsUpper(Ch(s, i)) /\ IsLower(Ch(s, i + 1))
    THEN MinOf({j \in (i + 1)..Len(s) : ~IsLower(Ch(s, j))} \cup {Len(s) + 1})
    ELSE 0

\* position after the match of [A-Z][a-z]+(?:\s[A-Z][a-z]+)? at i (greedy)
SecondNameEnd(s, e1) ==
    IF e1 = 0 THEN 0
    ELSE IF e1 <= Len(s) /\ IsSpace(Ch(s, e1)) /\ NameEnd(s, e1 + 1) # 0
    THEN NameEnd(s, e1 + 1)
    ELSE e1

FullNameEnd(s, i) == SecondNameEnd(s, NameEnd(s, i))

Modals == {"will", "should", "needs to", "is going to", "has to"}
Assignments == {"assigned to", "owned by", "responsibility of"}

\* " (?:will|should|needs to|is going to|has to)" matches at e
ModalAt(s, e) == \E m \in Modals : StartsAt(s, e, " " \o m)

\* group 1 of the first ownership pattern matched at i, <<>> if no match
ModalAfter(s, i, e1, e2) ==
    IF e1 = 0 THEN <<>>
    ELSE IF ModalAt(s, e2) THEN <<SubSeq(s, i, e2 - 1)>>
    ELSE IF ModalAt(s, e1) THEN <<SubSeq(s, i, e1 - 1)>>
    ELSE <<>>

ModalPatternAt(s, i) == ModalAfter(s, i, NameEnd(s, i), FullNameEnd(s, i))

\* group 1 of the second ownership pattern matched at i
NameAfter(s, p, e) == IF e = 0 THEN <<>> ELSE <<SubSeq(s, p, e - 1)>>

AssignedPatternAt(s, i) ==
    IF \A a \in Assignments : ~StartsAt(s, i, a \o " ") THEN <<>>
    ELSE LET a == CHOOSE a \in Assignments : StartsAt(s, i, a \o " ")
         IN  NameAfter(s, i + Len(a) + 1, FullNameEnd(s, i + Len(a) + 1))

\* re.search(pattern, text).group(1) for the two ownership patterns
SearchModal(s) == FirstMatch([i \in 1..Len(s) |-> ModalPatternAt(s, i)])

SearchAssigned(s) == FirstMatch([i \in 1..Len(s) |-> AssignedPatternAt(s, i)])

\* mutant: the matched text of the pattern is returned, not the participant
RECURSIVE MutMatchParticipant(_, _)
MutMatchParticipant(names, po) ==
    IF names = <<>> THEN <<>>
    ELSE IF \/ Contains(StrLower(Head(names)), StrLower(po))
            \/ Contains(StrLower(po), StrLower(Head(names)))
    THEN <<po>>
    ELSE MutMatchParticipant(Tail(names), po)

\* the first name with
\* potential_owner.lower() in name.lower() or name.lower() in potential_owner.lower()
RECURSIVE MatchParticipant(_, _)
MatchParticipant(names, po) ==
    IF names = <<>> THEN <<>>
    ELSE IF \/ Contains(StrLower(Head(names)), StrLower(po))
            \/ Contains(StrLower(po), StrLower(Head(names)))
    THEN <<Head(names)>>
    ELSE MatchParticipant(Tail(names), po)

\* the first name with "name in text"
RECURSIVE MentionedParticipant(_, _)
MentionedParticipant(names, text) ==
    IF names = <<>> THEN <<>>
    ELSE IF Contains(text, Head(names)) THEN <<Head(names)>>
    ELSE MentionedParticipant(Tail(names), text)

\* "if not participants": participants is None (<<>>) or an empty list
NoParticipants(participants) == participants = <<>> \/ participants[1] = <<>>

\* infer_owner_from_text(text, participants): the name, <<>> for None
\* the loop over ownership_patterns, then the loop over participant_names
OwnerAmong(names, text, m1, m2) ==
    LET o1 == IF m1 # <<>> THEN MatchParticipant(names, m1[1]) ELSE <<>>
        o2 == IF m2 # <<>> THEN MatchParticipant(names, m2[1]) ELSE <<>>
    IN  IF o1 # <<>> THEN o1
        ELSE IF o2 # <<>> THEN o2
        ELSE MentionedParticipant(names, text)

infer_owner_from_text(text, participants) ==
    IF NoParticipants(participants) THEN <<>>
    ELSE OwnerAmong(ParticipantNames(participants[1]), text,
                    SearchModal(text), SearchAssigned(text))

(***************************************************************************)
(* format_meeting_notes.py: format_enhanced_meeting_notes                  *)
(***************************************************************************)
\* for point in points: notes += f"- {point}\n"
RECURSIVE BulletLines(_)
BulletLines(points) ==
    IF points = <<>> THEN ""
    ELSE "- " \o Head(points) \o "\n" \o BulletLines(Tail(points))

\* for i, x in enumerate(list, 1): notes += f"{i}. {x}\n", from number i on
RECURSIVE NumberedLines(_, _)
NumberedLines(list, i) ==
    IF list = <<>> THEN ""
    ELSE IntToStr(i) \o ". " \o Head(list) \o "\n" \o NumberedLines(Tail(list), i + 1)

\* for category, points in categorized_points.items(): ...
RECURSIVE CategoryBlocks(_)
CategoryBlocks(d) ==
    IF d = <<>> THEN ""
    ELSE "### " \o Head(d)[1] \o "\n\n" \o BulletLines(Head(d)[2]) \o "\n"
         \o CategoryBlocks(Tail(d))

\* mutant: the heading of a dedicated list is written also for an empty list
MutNumberedSection(title, list) ==
    "## " \o title \o "\n\n" \o NumberedLines(list, 1) \o "\n"

\* "if list: notes += heading; numbered lines; blank line"
NumberedSection(title, list) ==
    IF list = <<>> THEN ""
    ELSE "## " \o title \o "\n\n" \o NumberedLines(list, 1) \o "\n"

\* mutant: the General Points are written only when there is no category
MutKeyPointsBlocks(c) ==
    "## Key Takeaways\n\n"
    \o CategoryBlocks(c.categorized)
    \o (IF c.uncategorized # <<>> /\ c.categorized = <<>>
        THEN "### General Points\n\n" \o BulletLines(c.uncategorized) \o "\n"
        ELSE "")
    \o NumberedSection("Decisions Made", c.decisions)
    \o NumberedSection("Technical Details", c.technical)
    \o NumberedSection("Cost and Resource Considerations", c.cost)
    \o NumberedSection("Risks and Issues", c.risks)

\* everything the renderer appends for the key points
KeyPointsBlocks(c) ==
    "## Key Takeaways\n\n"
    \o CategoryBlocks(c.categorized)
    \o (IF c.uncategorized # <<>>
        THEN "### General Points\n\n" \o BulletLines(c.uncategorized) \o "\n"
        ELSE "")
    \o NumberedSection("Decisions Made", c.decisions)
    \o NumberedSection("Technical Details", c.technical)
    \o NumberedSection("Cost and Resource Considerations", c.cost)
    \o NumberedSection("Risks and Issues", c.risks)

KeyPointsText(kps) == KeyPointsBlocks(CategorizePoints(NoPoints, kps))

\* the body of the two loops "for i, item in enumerate(items, 1)": what is
\* decided for the item and the line appended to the notes
\* mutant: the owner-only tag is written also when there is a deadline
\* (the else of "if deadline:" is lost)
MutOwnerTag(owner, deadline) ==
    " **[Owner: " \o owner \o "]**"
    \o (IF Truthy(deadline)
        THEN " **[Owner: " \o owner \o ", Deadline: " \o deadline[1] \o "]**"
        ELSE "")
    \o "\n"

\* "if deadline:" -- the tag appended to the text of an item with an owner
OwnerTag(owner, deadline) ==
    IF Truthy(deadline)
    THEN " **[Owner: " \o owner \o ", Deadline: " \o deadline[1] \o "]**\n"
    ELSE " **[Owner: " \o owner \o "]**\n"

\* odm and om are the two annotation matches, text is the item without its
\* annotations, inferred_owner is the result of infer_owner_from_text
RenderWith(num, item, odm, om, text, inferred_owner) ==
    IF odm # <<>>
    THEN [item |-> item, owner |-> <<Strip(odm[1].g1)>>, inferred |-> FALSE,
          deadline |-> IF Truthy(DeadlineOf(odm[1])) THEN DeadlineOf(odm[1]) ELSE <<>>,
          line |-> num \o text \o OwnerTag(Strip(odm[1].g1), DeadlineOf(odm[1]))]
    ELSE IF om # <<>>
    THEN [item |-> item, owner |-> <<Strip(om[1].g1)>>, inferred |-> FALSE,
          deadline |-> <<>>,
          line |-> num \o text \o OwnerTag(Strip(om[1].g1), <<>>)]
    ELSE [item |-> item, owner |-> inferred_owner, inferred |-> TRUE,
          deadline |-> <<>>,
          line |-> IF Truthy(inferred_owner)
                   THEN num \o item \o OwnerTag(inferred_owner[1], <<>>)
                   ELSE num \o item \o "\n"]

RenderItem(i, item, participants) ==
    RenderWith(IntToStr(i) \o ". ", item, SearchOwnerDeadline(item), SearchOwner(item),
               Strip(SubOwner(item)), infer_owner_from_text(item, participants))

RenderItems(items, participants) ==
    [i \in 1..Len(items) |-> RenderItem(i, items[i], participants)]

\* the rendered items of all categories, in the order they are rendered
RECURSIVE RenderCategorized(_, _)
RenderCategorized(d, participants) ==
    IF d = <<>> THEN <<>>
    ELSE RenderItems(Head(d)[2], participants) \o RenderCategorized(Tail(d), participants)

RenderedGroups(c, participants) ==
    RenderCategorized(c.categorized, participants)
    \o RenderItems(c.uncategorized, participants)

RenderedActions(items, participants) ==
    RenderedGroups(CategorizeActions(NoPoints, items), participants)

RECURSIVE ItemLines(_)
ItemLines(rs) == IF rs = <<>> THEN "" ELSE Head(rs).line \o ItemLines(Tail(rs))

\* the blocks of the categories; rs are the rendered items that are left,
\* those of the first category first
RECURSIVE ActionBlocks(_, _)
ActionBlocks(d, rs) ==
    IF d = <<>> THEN ""
    ELSE "### " \o Head(d)[1] \o "\n\n"
         \o ItemLines(SubSeq(rs, 1, Len(Head(d)[2]))) \o "\n"
         \o ActionBlocks(Tail(d), SubSeq(rs, Len(Head(d)[2]) + 1, Len(rs)))

\* everything the renderer appends for the action items; rs are the
\* rendered items of all groups
ActionGroupsText(c, rs) ==
    "## Action Items\n\n"
    \o ActionBlocks(c.categorized, rs)
    \o (IF c.uncategorized # <<>>
        THEN (IF c.categorized # <<>> THEN "### Other Action Items\n\n" ELSE "")
             \o ItemLines(SubSeq(rs, Len(rs) - Len(c.uncategorized) + 1, Len(rs)))
             \o "\n"
        ELSE "")

ActionItemsText(items, rs) ==
    IF items = <<>> THEN ""
    ELSE ActionGroupsText(CategorizeActions(NoPoints, items), rs)

\* participant.get(key, '') for role and organization
GetOr(o, default) == IF o # <<>> THEN o[1] ELSE default

ParticipantLine(p) ==
    LET name == IF p.name # <<>> THEN p.name[1] ELSE GetOr(p.id, "Unknown")
        role == GetOr(p.role, "")
        org == GetOr(p.organization, "")
    IN  IF role # "" /\ org # "" THEN "- " \o name \o " (" \o role \o ", " \o org \o ")\n"
        ELSE IF role # "" THEN "- " \o name \o " (" \o role \o ")\n"
        ELSE IF org # "" THEN "- " \o name \o " (" \o org \o ")\n"
        ELSE "- " \o name \o "\n"

RECURSIVE ParticipantLines(_)
ParticipantLines(ps) ==
    IF ps = <<>> THEN "" ELSE ParticipantLine(Head(ps)) \o ParticipantLines(Tail(ps))

\* "if participants and len(participants) > 0"
HasParticipants(participants) == participants # <<>> /\ Len(participants[1]) > 0

(***************************************************************************)
(* State                                                                   *)
(***************************************************************************)
VARIABLES
    response_text,          \* the completion handed to parse_bedrock_response
    pc,                     \* the position in parser and renderer
    sections,               \* the dict built by the section splitter
    summary,                \* the three results of the parser, then the
    key_points,             \*   arguments of format_enhanced_meeting_notes
    action_items,
    participants,           \* None (<<>>) or <<list of participant records>>
    has_speaker_segments,
    notes,                  \* the document under construction
    rendered,               \* per rendered action item: the locals of the loop
                            \*   body and the line appended to notes
    items,                  \* results.items of the transcription output
    segments,               \* results.speaker_labels.segments
    word_to_speaker,        \* the dict start_time -> speaker_label
    next_item,              \* position of "for item in items"
    current_speaker,        \* None (<<>>) or <<label>>
    current_segment,        \* the text of the turn under construction
    formatted_transcript,   \* the turns appended so far
    main_pc,                \* the position in main()
    transcript,             \* what transcribe_with_aws returned to main()
    files,                  \* the files written: a dict name -> content
    exceptions,             \* the calls that have raised, in order
    transcribe_pc,          \* the position in transcribe_with_aws
    job,                    \* the status of the job in AWS Transcribe
    job_status,             \* the status last read by the polling loop
    dots,                   \* the progress indicator of the polling loop
    enable_diarization,
    data,                   \* the downloaded output of the job
    result,                 \* the value transcribe_with_aws returned
    error,                  \* the message of the exception it raised
    start_button,           \* the Start button is enabled
    progress_bar,           \* the progress bar is visible
    workers,                \* the TranscriptionWorker threads created so far
    signals,                \* the finished_signal emissions not yet delivered
    message_boxes           \* the modal message boxes that are open

notes_vars == <<response_text, sections, summary, key_points, action_items,
                participants, has_speaker_segments, notes, rendered>>

segment_vars == <<items, segments, word_to_speaker, next_item, current_speaker,
                  current_segment, formatted_transcript>>

main_vars == <<main_pc, transcript, files, exceptions>>

transcribe_vars == <<transcribe_pc, job, job_status, dots, enable_diarization,
                     data, result, error>>

gui_vars == <<start_button, progress_bar, workers, signals, message_boxes>>

control_vars == <<main_vars, transcribe_vars, gui_vars>>

vars == <<pc, notes_vars, segment_vars, control_vars>>

\* meeting_date.strftime("%B %d, %Y") and datetime.now().strftime(...)
DateStr == "May 10, 2024"
NowStr == "2024-05-10 at 09:00:00"

(***************************************************************************)
(* parse_bedrock_response, one action per block of the function            *)
(***************************************************************************)
ParseSections ==
    /\ pc = "split"
    /\ sections' = SplitSections(response_text)
    /\ pc' = "summary"
    /\ UNCHANGED <<segment_vars, control_vars>>
    /\ UNCHANGED <<response_text, summary, key_points, action_items,
                   participants, has_speaker_segments, notes, rendered>>

ExtractSummary ==
    /\ pc = "summary"
    /\ LET k == FirstKey(sections, SummaryKeys)
       IN  summary' = IF k # <<>> THEN DictGet(sections, k[1]) ELSE summary
    /\ pc' = "key_points"
    /\ UNCHANGED <<segment_vars, control_vars>>
    /\ UNCHANGED <<response_text, sections, key_points, action_items,
                   participants, has_speaker_segments, notes, rendered>>

ExtractKeyPoints ==
    /\ pc = "key_points"
    /\ LET k == FirstKey(sections, KeyPointKeys)
       IN  key_points' = IF k # <<>>
                         THEN SectionItems(DictGet(sections, k[1]), FALSE)
                         ELSE key_points
    /\ pc' = "action_items"
    /\ UNCHANGED <<segment_vars, control_vars>>
    /\ UNCHANGED <<response_text, sections, summary, action_items,
                   participants, has_speaker_segments, notes, rendered>>

ExtractActionItems ==
    /\ pc = "action_items"
    /\ LET k == FirstKey(sections, ActionItemKeys)
       IN  action_items' = IF k # <<>>
                           THEN SectionItems(DictGet(sections, k[1]), TRUE)
                           ELSE action_items
    /\ pc' = "decisions"
    /\ UNCHANGED <<segment_vars, control_vars>>
    /\ UNCHANGED <<response_text, sections, summary, key_points,
                   participants, has_speaker_segments, notes, rendered>>

\* the four blocks that extend key_points with labelled items
ExtendKeyPoints(at, keys, label, next) ==
    /\ pc = at
    /\ key_points' = key_points \o LabelledItems(sections, keys, label)
    /\ pc' = next
    /\ UNCHANGED <<segment_vars, control_vars>>
    /\ UNCHANGED <<response_text, sections, summary, action_items,
                   participants, has_speaker_segments, notes, rendered>>

ExtractDecisions == ExtendKeyPoints("decisions", DecisionKeys, "Decision", "technical")
ExtractTechnical == ExtendKeyPoints("technical", TechnicalKeys, "Technical", "cost")
ExtractCost == ExtendKeyPoints("cost", CostKeys, "Cost", "risks")
ExtractRisks == ExtendKeyPoints("risks", RiskKeys, "Risk", "heuristics")

\* mutant: the guard of paragraphs[0] is dropped
MutHasParagraphs(paragraphs) == TRUE

\* "if paragraphs:" guards paragraphs[0]
HasParagraphs(paragraphs) == paragraphs # <<>>

\* list[i] raises IndexError
IndexError(list, i) == i >= Len(list)

Heuristics ==
    /\ pc = "heuristics"
    /\ LET paragraphs == Paragraphs(response_text)
           all_bullets == KeyPointFindAll(response_text)
           apply == NothingExtracted(summary, key_points, action_items)
       IN  IF apply /\ HasParagraphs(paragraphs) /\ IndexError(paragraphs, 0)
           THEN /\ pc' = "raised"
                /\ UNCHANGED <<summary, key_points, action_items>>
           ELSE /\ pc' = "owners"
                /\ summary' = IF apply /\ HasParagraphs(paragraphs)
                              THEN paragraphs[1] ELSE summary
                /\ key_points' = IF apply /\ all_bullets # <<>>
                                 THEN HeuristicKeyPoints(all_bullets) ELSE key_points
                /\ action_items' = IF apply /\ all_bullets # <<>>
                                   THEN HeuristicActionItems(all_bullets)
                                   ELSE action_items
    /\ UNCHANGED <<segment_vars, control_vars>>
    /\ UNCHANGED <<response_text, sections, participants, has_speaker_segments,
                   notes, rendered>>

\* the owner normalisation and the return; the caller passes the triple on
\* to format_enhanced_meeting_notes
ProcessOwners ==
    /\ pc = "owners"
    /\ action_items' = ProcessActionItems(action_items)
    /\ pc' = "format"
    /\ UNCHANGED <<segment_vars, control_vars>>
    /\ UNCHANGED <<response_text, sections, summary, key_points,
                   participants, has_speaker_segments, notes, rendered>>

(***************************************************************************)
(* format_enhanced_meeting_notes, one action per part of the document      *)
(***************************************************************************)
FormatSummary ==
    /\ pc = "format"
    /\ notes' = "# Meeting Notes - " \o DateStr \o "\n\n"
                \o "## Summary\n\n" \o summary \o "\n\n"
    /\ pc' = "fmt_key_points"
    /\ UNCHANGED <<segment_vars, control_vars>>
    /\ UNCHANGED <<response_text, sections, summary, key_points, action_items,
                   participants, has_speaker_segments, rendered>>

FormatKeyPoints ==
    /\ pc = "fmt_key_points"
    /\ notes' = notes \o KeyPointsText(key_points)
    /\ pc' = "fmt_action_items"
    /\ UNCHANGED <<segment_vars, control_vars>>
    /\ UNCHANGED <<response_text, sections, summary, key_points, action_items,
                   participants, has_speaker_segments, rendered>>

FormatActionItems ==
    /\ pc = "fmt_action_items"
    /\ rendered' = RenderedActions(action_items, participants)
    /\ notes' = notes \o ActionItemsText(action_items, rendered')
    /\ pc' = "fmt_participants"
    /\ UNCHANGED <<segment_vars, control_vars>>
    /\ UNCHANGED <<response_text, sections, summary, key_points, action_items,
                   participants, has_speaker_segments>>

FormatParticipants ==
    /\ pc = "fmt_participants"
    /\ IF HasParticipants(participants) /\ participants = <<>>
       THEN pc' = "raised" /\ UNCHANGED notes  \* iterating None: TypeError
       ELSE /\ notes' = IF HasParticipants(participants)
                        THEN notes \o "## Participants\n\n"
                             \o ParticipantLines(participants[1]) \o "\n"
                        ELSE notes
            /\ pc' = "fmt_transcript"
    /\ UNCHANGED <<segment_vars, control_vars>>
    /\ UNCHANGED <<response_text, sections, summary, key_points, action_items,
                   participants, has_speaker_segments, rendered>>

FormatTranscript ==
    /\ pc = "fmt_transcript"
    /\ notes' = notes \o "## Full Transcript\n\n"
                \o (IF has_speaker_segments
                    THEN "The full transcript with speaker identification is available in the attached file.\n"
                    ELSE "The full transcript is available in the attached file.\n")
                \o "\n---\n*Notes generated on " \o NowStr \o "*\n"
    /\ pc' = "done"
    /\ UNCHANGED <<segment_vars, control_vars>>
    /\ UNCHANGED <<response_text, sections, summary, key_points, action_items,
                   participants, has_speaker_segments, rendered>>

Parse ==
    \/ ParseSections \/ ExtractSummary \/ ExtractKeyPoints \/ ExtractActionItems
    \/ ExtractDecisions \/ ExtractTechnical \/ ExtractCost \/ ExtractRisks
    \/ Heuristics \/ ProcessOwners

Format ==
    \/ FormatSummary \/ FormatKeyPoints \/ FormatActionItems
    \/ FormatParticipants \/ FormatTranscript

Next == Parse \/ Format

(***************************************************************************)
(* aws_transcribe.py: process_speaker_segments                             *)
(***************************************************************************)
\* an item of results.items: item['type'], item['start_time'] (absent, <<>>,
\* for punctuation) and item['alternatives'][0]['content']
Item(type, start_time, content) ==
    [type |-> type, start_time |-> start_time, content |-> content]

\* a segment of speaker_labels.segments: its label and the start times of
\* its items
Segment(speaker_label, start_times) ==
    [speaker_label |-> speaker_label, items |-> start_times]

\* for item in segment['items']: word_to_speaker[item['start_time']] = label
RECURSIVE MapSegment(_, _, _)
MapSegment(d, speaker_label, start_times) ==
    IF start_times = <<>> THEN d
    ELSE MapSegment(DictPut(d, Head(start_times), speaker_label), speaker_label,
                    Tail(start_times))

\* for segment in segments: ...
RECURSIVE MapSegments(_, _)
MapSegments(d, segs) ==
    IF segs = <<>> THEN d
    ELSE MapSegments(MapSegment(d, Head(segs).speaker_label, Head(segs).items),
                     Tail(segs))

\* mutant: a start time that no segment holds resolves to the first speaker
MutSpeakerOf(d, start_time) ==
    IF DictHas(d, start_time) THEN DictGet(d, start_time) ELSE "spk_0"

\* word_to_speaker.get(start_time, "Unknown")
SpeakerOf(d, start_time) ==
    IF DictHas(d, start_time) THEN DictGet(d, start_time) ELSE "Unknown"

\* items.index(item), 1-based: the first position that holds an equal item
IndexOf(list, item) == MinOf({j \in 1..Len(list) : list[j] = item})

\* the content appended by "Add punctuation if available" after the item at
\* position p (next_index = p + 1 in 1-based positions)
PunctuationAfter(list, p) ==
    IF p + 1 <= Len(list) /\ list[p + 1].type = "punctuation"
    THEN list[p + 1].content ELSE ""

\* mutant: the word is appended without the separating space
MutContinueSegment(segment, word) == segment \o word

\* current_segment += " " + word
ContinueSegment(segment, word) == segment \o " " \o word

\* formatted_transcript.append({...}) under "if current_segment:"
CloseTurn(turns, speaker, segment) ==
    IF segment # ""
    THEN Append(turns, [speaker |-> speaker, text |-> Strip(segment)])
    ELSE turns

\* the first loop: the dict from start times to speaker labels
MapSpeakers ==
    /\ pc = "map_speakers"
    /\ word_to_speaker' = MapSegments(<<>>, segments)
    /\ pc' = "items_loop"
    /\ UNCHANGED <<items, segments, next_item, current_speaker, current_segment,
                   formatted_transcript>>
    /\ UNCHANGED <<notes_vars, control_vars>>

\* one round of "for item in items" for an item that is no pronunciation
SkipItem ==
    /\ pc = "items_loop"
    /\ next_item <= Len(items)
    /\ items[next_item].type # "pronunciation"
    /\ current_segment' = IF current_segment # ""
                          THEN current_segment \o items[next_item].content
                          ELSE current_segment
    /\ next_item' = next_item + 1
    /\ UNCHANGED <<pc, items, segments, word_to_speaker, current_speaker,
                   formatted_transcript>>
    /\ UNCHANGED <<notes_vars, control_vars>>

\* one round of "for item in items" for a pronunciation item
AddWord ==
    /\ pc = "items_loop"
    /\ next_item <= Len(items)
    /\ items[next_item].type = "pronunciation"
    /\ LET item == items[next_item]
           speaker == SpeakerOf(word_to_speaker, item.start_time[1])
           changed == <<speaker>> # current_speaker
       IN  /\ formatted_transcript' =
                 IF changed
                 THEN CloseTurn(formatted_transcript, current_speaker, current_segment)
                 ELSE formatted_transcript
           /\ current_speaker' = <<speaker>>
           /\ current_segment' =
                 (IF changed THEN item.content
                  ELSE ContinueSegment(current_segment, item.content))
                 \o PunctuationAfter(items, IndexOf(items, item))
    /\ next_item' = next_item + 1
    /\ UNCHANGED <<pc, items, segments, word_to_speaker>>
    /\ UNCHANGED <<notes_vars, control_vars>>

\* "Add the last segment" and the return
ReturnSegments ==
    /\ pc = "items_loop"
    /\ next_item > Len(items)
    /\ formatted_transcript' =
          CloseTurn(formatted_transcript, current_speaker, current_segment)
    /\ pc' = "returned"
    /\ UNCHANGED <<items, segments, word_to_speaker, next_item, current_speaker,
                   current_segment>>
    /\ UNCHANGED <<notes_vars, control_vars>>

process_speaker_segments == MapSpeakers \/ SkipItem \/ AddWord \/ ReturnSegments

(***************************************************************************)
(* aws_transcribe.py: transcribe_with_aws, one action per call to AWS and  *)
(* per round of the polling loop                                           *)
(***************************************************************************)
\* an exception leaves transcribe_with_aws
TranscribeRaises(message) ==
    /\ error' = message
    /\ transcribe_pc' = "raised"

\* the credentials check, the upload to S3 and start_transcription_job
StartJob ==
    /\ transcribe_pc = "start"
    /\ \/ /\ TranscribeRaises("AWS credentials not found")
          /\ UNCHANGED job
       \/ /\ TranscribeRaises("Failed to upload to S3")
          /\ UNCHANGED job
       \/ /\ job' = "QUEUED"
          /\ transcribe_pc' = "poll"
          /\ UNCHANGED error
    /\ UNCHANGED <<job_status, dots, enable_diarization, data, result>>
    /\ UNCHANGED <<pc, notes_vars, segment_vars, main_vars, gui_vars>>

\* AWS Transcribe works on the job: a job that is queued is taken up, a job
\* in progress is completed or fails, and a finished job stays as it is
JobAdvances ==
    /\ \/ job = "QUEUED" /\ job' = "IN_PROGRESS"
       \/ job = "IN_PROGRESS" /\ job' \in {"COMPLETED", "FAILED"}
    /\ UNCHANGED <<transcribe_pc, job_status, dots, enable_diarization, data, result,
                   error>>
    /\ UNCHANGED <<pc, notes_vars, segment_vars, main_vars, gui_vars>>

\* mutant: the loop ends as soon as the job is no longer queued
MutLoopEnds(status) == status \in {"IN_PROGRESS", "COMPLETED", "FAILED"}

\* if job_status in ['COMPLETED', 'FAILED']: break
LoopEnds(status) == status \in {"COMPLETED", "FAILED"}

\* one round of "while True": get_transcription_job, then the break or the
\* progress indicator; the call to AWS may raise
PollJob ==
    /\ transcribe_pc = "poll"
    /\ \/ /\ TranscribeRaises("get_transcription_job failed")
          /\ UNCHANGED <<job_status, dots>>
       \/ /\ job_status' = job
          /\ UNCHANGED error
          /\ IF LoopEnds(job_status')
             THEN transcribe_pc' = "after_loop" /\ UNCHANGED dots
             ELSE transcribe_pc' = "sleep" /\ dots' = (dots % 3) + 1
    /\ UNCHANGED <<job, enable_diarization, data, result>>
    /\ UNCHANGED <<pc, notes_vars, segment_vars, main_vars, gui_vars>>

\* time.sleep(30)
Sleep ==
    /\ transcribe_pc = "sleep"
    /\ transcribe_pc' = "poll"
    /\ UNCHANGED <<job, job_status, dots, enable_diarization, data, result, error>>
    /\ UNCHANGED <<pc, notes_vars, segment_vars, main_vars, gui_vars>>

\* if enable_diarization and 'speaker_labels' in data['results']
WithSpeakers(d) == enable_diarization /\ d.speaker_labels # <<>>

\* the code after the loop for a completed job: the output is downloaded;
\* it is returned as text, or process_speaker_segments is called
Download(outputs) ==
    /\ transcribe_pc = "after_loop"
    /\ job_status = "COMPLETED"
    /\ \/ /\ TranscribeRaises("urlopen failed")
          /\ UNCHANGED <<data, result, pc, segment_vars>>
       \/ \E d \in outputs :
             /\ data' = <<d>>
             /\ UNCHANGED error
             /\ IF WithSpeakers(d)
                THEN /\ items' = d.items
                     /\ segments' = d.speaker_labels[1]
                     /\ pc' = "map_speakers"
                     /\ transcribe_pc' = "process_speaker_segments"
                     /\ UNCHANGED <<result, word_to_speaker, next_item, current_speaker,
                                    current_segment, formatted_transcript>>
                ELSE /\ result' = <<[full_transcript |-> d.transcript,
                                     speaker_segments |-> <<>>]>>
                     /\ transcribe_pc' = "returned"
                     /\ UNCHANGED <<pc, segment_vars>>
    /\ UNCHANGED <<job, job_status, dots, enable_diarization>>
    /\ UNCHANGED <<notes_vars, main_vars, gui_vars>>

\* the rounds of process_speaker_segments
ProcessSegments ==
    transcribe_pc = "process_speaker_segments" /\ process_speaker_segments

\* return process_speaker_segments(data, transcript)
ReturnWithSpeakers ==
    /\ transcribe_pc = "process_speaker_segments"
    /\ pc = "returned"
    /\ result' = <<[full_transcript |-> data[1].transcript,
                    speaker_segments |-> <<formatted_transcript>>]>>
    /\ transcribe_pc' = "returned"
    /\ UNCHANGED <<job, job_status, dots, enable_diarization, data, error>>
    /\ UNCHANGED <<pc, notes_vars, segment_vars, main_vars, gui_vars>>

\* the code after the loop for a failed job
JobFailed ==
    /\ transcribe_pc = "after_loop"
    /\ job_status # "COMPLETED"
    /\ TranscribeRaises("AWS Transcribe job failed")
    /\ UNCHANGED <<job, job_status, dots, enable_diarization, data, result>>
    /\ UNCHANGED <<pc, notes_vars, segment_vars, main_vars, gui_vars>>

(***************************************************************************)
(* main.py: simple_summarize and format_simple_notes                       *)
(***************************************************************************)
\* nltk.sent_tokenize on texts whose sentences end with a period and are
\* separated by one space
RECURSIVE sent_tokenize(_)
sent_tokenize(text) ==
    LET k == Find(text, ". ", 1)
    IN  IF text = "" THEN <<>>
        ELSE IF k = 0 THEN <<text>>
        ELSE <<SubSeq(text, 1, k)>> \o sent_tokenize(From(text, k + 2))

action_indicators ==
    {"need to", "should", "will", "going to", "have to", "must", "action item"}

\* any(indicator in sentence.lower() for indicator in action_indicators)
HasIndicator(sentence) ==
    \E indicator \in action_indicators : Contains(StrLower(sentence), indicator)

\* sentences[0], [len//4], [len//2], [3*len//4], [-1]
KeySentences(sentences) ==
    LET n == Len(sentences)
    IN  <<sentences[1], sentences[(n \div 4) + 1], sentences[(n \div 2) + 1],
          sentences[((3 * n) \div 4) + 1], sentences[n]>>

simple_summarize(text) ==
    LET sentences == sent_tokenize(text)
    IN  [summary |-> Join(Slice(sentences, 0, 5), " "),
         key_points |-> IF Len(sentences) <= 10 THEN sentences
                        ELSE KeySentences(sentences),
         action_items |-> Slice(SelectSeq(sentences, HasIndicator), 0, 5)]

format_simple_notes(r) ==
    "# Meeting Notes - " \o DateStr \o "\n\n"
    \o "## Summary\n\n" \o r.summary \o "\n\n"
    \o "## Key Takeaways\n\n" \o BulletLines(r.key_points) \o "\n"
    \o (IF r.action_items # <<>>
        THEN "## Action Items\n\n" \o NumberedLines(r.action_items, 1) \o "\n"
        ELSE "")
    \o "## Full Transcript\n\n"
    \o "The full transcript is available in the attached file.\n"
    \o "\n---\n*Notes generated on " \o NowStr \o "*\n"

(***************************************************************************)
(* main.py: main, one action per call that may raise                       *)
(***************************************************************************)
\* isinstance(transcript, dict) and 'speaker_segments' in transcript
IsSpeakerTranscript(t) == t.speaker_segments # <<>>

\* text_for_summary
TextForSummary(t) == t.full_transcript

\* speaker_text: f"{segment['speaker']}: {segment['text']}\n\n" per segment
RECURSIVE SpeakerText(_)
SpeakerText(turns) ==
    IF turns = <<>> THEN ""
    ELSE Head(turns).speaker[1] \o ": " \o Head(turns).text \o "\n\n"
         \o SpeakerText(Tail(turns))

\* the transcript files written by main
TranscriptFiles(t) ==
    IF IsSpeakerTranscript(t)
    THEN << <<"transcript", t.full_transcript>>,
            <<"transcript_with_speakers", SpeakerText(t.speaker_segments[1])>> >>
    ELSE << <<"transcript", t.full_transcript>> >>

\* speakers = set(); for segment in ...: speakers.add(segment['speaker'])
SpeakerSet(turns) == {turns[i].speaker[1] : i \in 1..Len(turns)}

\* "for speaker in speakers": the orders in which a set of strings may be
\* iterated; the order follows the hashes of the strings, which differ from
\* process to process
IterationOrders(S) ==
    {q \in [1..Cardinality(S) -> S] : \A i, j \in 1..Cardinality(S) : q[i] = q[j] => i = j}

\* f"Speaker {speaker.split('_')[-1]}" if speaker.startswith('spk_') else speaker
SpeakerName(speaker) ==
    LET parts == Split(speaker, "_")
    IN  IF StartsAt(speaker, 1, "spk_") THEN "Speaker " \o parts[Len(parts)] ELSE speaker

\* participants.append({'id': speaker, 'name': ...}) for the speakers in order
ParticipantsOf(order) ==
    [i \in 1..Len(order) |-> [name |-> <<SpeakerName(order[i])>>, id |-> <<order[i]>>,
                              role |-> <<>>, organization |-> <<>>]]

\* an exception leaves main through "except Exception", which ends in sys.exit(1)
MainRaises(call) ==
    /\ exceptions' = Append(exceptions, call)
    /\ main_pc' = "exit_1"
    /\ UNCHANGED <<transcript, files>>

\* transcript = transcribe_with_aws(args.audio_file)
MainTranscribe(results) ==
    /\ UNCHANGED <<transcribe_vars, gui_vars>>
    /\ main_pc = "transcribe"
    /\ \/ MainRaises("transcribe_with_aws")
       \/ \E t \in results :
             /\ transcript' = t
             /\ main_pc' = "save_transcript"
             /\ UNCHANGED <<files, exceptions>>
    /\ UNCHANGED <<pc, notes_vars, segment_vars>>

\* save_to_file for the transcript, and for the transcript with speakers
MainSaveTranscript ==
    /\ UNCHANGED <<transcribe_vars, gui_vars>>
    /\ main_pc = "save_transcript"
    /\ \/ MainRaises("save_to_file")
       \/ /\ files' = TranscriptFiles(transcript)
          /\ main_pc' = "generate"
          /\ UNCHANGED <<transcript, exceptions>>
    /\ UNCHANGED <<pc, notes_vars, segment_vars>>

\* mutant: an exception of generate_notes_with_bedrock reaches the outer handler
MutMainGenerate(completions) ==
    /\ UNCHANGED <<transcribe_vars, gui_vars>>
    /\ main_pc = "generate"
    /\ \/ /\ exceptions' = Append(exceptions, "generate_notes_with_bedrock")
          /\ main_pc' = "exit_1"
          /\ UNCHANGED <<pc, notes_vars>>
       \/ \E c \in completions :
             /\ response_text' = c
             /\ pc' = "split"
             /\ main_pc' = "parse"
             /\ UNCHANGED <<sections, summary, key_points, action_items, participants,
                            has_speaker_segments, notes, rendered, exceptions>>
    /\ UNCHANGED <<transcript, files, segment_vars>>

\* generate_notes_with_bedrock: the model is invoked and its completion is
\* handed to parse_bedrock_response; an exception is caught by the inner try
MainGenerate(completions) ==
    /\ UNCHANGED <<transcribe_vars, gui_vars>>
    /\ main_pc = "generate"
    /\ \/ /\ exceptions' = Append(exceptions, "generate_notes_with_bedrock")
          /\ main_pc' = "fallback"
          /\ UNCHANGED <<pc, notes_vars>>
       \/ \E c \in completions :
             /\ response_text' = c
             /\ pc' = "split"
             /\ main_pc' = "parse"
             /\ UNCHANGED <<sections, summary, key_points, action_items, participants,
                            has_speaker_segments, notes, rendered, exceptions>>
    /\ UNCHANGED <<transcript, files, segment_vars>>

\* the steps of parse_bedrock_response inside generate_notes_with_bedrock
MainParse == main_pc = "parse" /\ Parse

\* the participants list built from the speaker labels, and the arguments
\* of format_enhanced_meeting_notes
MainParticipants ==
    /\ UNCHANGED <<transcribe_vars, gui_vars>>
    /\ main_pc = "parse"
    /\ pc = "format"
    /\ IF IsSpeakerTranscript(transcript)
       THEN \E order \in IterationOrders(SpeakerSet(transcript.speaker_segments[1])) :
               participants' = <<ParticipantsOf(order)>>
       ELSE participants' = << <<>> >>
    /\ has_speaker_segments' = IsSpeakerTranscript(transcript)
    /\ main_pc' = "format"
    /\ UNCHANGED <<pc, response_text, sections, summary, key_points, action_items,
                   notes, rendered>>
    /\ UNCHANGED <<transcript, files, exceptions, segment_vars>>

\* the steps of format_enhanced_meeting_notes
MainFormat == main_pc = "format" /\ Format

\* the handler of the inner try: simple_summarize, then format_simple_notes
MainFallback ==
    /\ UNCHANGED <<transcribe_vars, gui_vars>>
    /\ main_pc = "fallback"
    /\ \/ /\ MainRaises("simple_summarize")
          /\ UNCHANGED <<summary, key_points, action_items, notes>>
       \/ LET r == simple_summarize(TextForSummary(transcript))
          IN  /\ summary' = r.summary
              /\ key_points' = r.key_points
              /\ action_items' = r.action_items
              /\ notes' = format_simple_notes(r)
              /\ main_pc' = "save_notes"
              /\ UNCHANGED <<transcript, files, exceptions>>
    /\ UNCHANGED <<pc, response_text, sections, participants, has_speaker_segments,
                   rendered, segment_vars>>

\* save_to_file(meeting_notes, notes_file), then main returns
MainSaveNotes ==
    /\ UNCHANGED <<transcribe_vars, gui_vars>>
    /\ main_pc = "save_notes" \/ (main_pc = "format" /\ pc = "done")
    /\ \/ MainRaises("save_to_file")
       \/ /\ files' = DictPut(files, "meeting_notes", notes)
          /\ main_pc' = "exit_0"
          /\ UNCHANGED <<transcript, exceptions>>
    /\ UNCHANGED <<pc, notes_vars, segment_vars>>

(***************************************************************************)
(* meeting_transcriber_gui.py: TranscriptionWorker.run, one action per     *)
(* outcome of a call of the pipeline                                       *)
(***************************************************************************)
\* a TranscriptionWorker: the position of its run, the files it has
\* written, whether a call has raised, and the success flags it has emitted
\* with finished_signal
Worker(at, written, flags) ==
    [at |-> at, files |-> written, raised |-> FALSE, emitted |-> flags]

\* the calls of run in order: the environment and the output directory,
\* transcribe_with_aws, the transcript files, generate_notes_with_bedrock,
\* format_enhanced_meeting_notes, the notes file
AfterCall(at) ==
    CASE at = "setup" -> "transcribe"
      [] at = "transcribe" -> "save_transcript"
      [] at = "save_transcript" -> "generate"
      [] at = "generate" -> "format"
      [] at = "format" -> "save_notes"

\* the files a call of run writes
FilesOf(at) ==
    IF at = "save_transcript" THEN {"transcript"}
    ELSE IF at = "save_notes" THEN {"meeting_notes"}
    ELSE {}

\* the worker thread is inside run
InRun(w) == workers[w].at # "finished"

\* a call other than the last one returns
WorkerCall(w) ==
    /\ InRun(w)
    /\ workers[w].at # "save_notes"
    /\ workers' = [workers EXCEPT ![w].at = AfterCall(@),
                                  ![w].files = @ \cup FilesOf(workers[w].at)]
    /\ UNCHANGED <<start_button, progress_bar, signals, message_boxes>>
    /\ UNCHANGED <<pc, notes_vars, segment_vars, main_vars, transcribe_vars>>

\* the notes file is saved, finished_signal.emit(True, ...), run returns
WorkerSucceeds(w) ==
    /\ workers[w].at = "save_notes"
    /\ workers' = [workers EXCEPT ![w].at = "finished",
                                  ![w].files = @ \cup FilesOf("save_notes"),
                                  ![w].emitted = Append(@, TRUE)]
    /\ signals' = Append(signals, [worker |-> w, success |-> TRUE])
    /\ UNCHANGED <<start_button, progress_bar, message_boxes>>
    /\ UNCHANGED <<pc, notes_vars, segment_vars, main_vars, transcribe_vars>>

\* mutant: the handler of run logs the exception and emits nothing
MutWorkerRaises(w) ==
    /\ InRun(w)
    /\ workers' = [workers EXCEPT ![w].at = "finished", ![w].raised = TRUE]
    /\ UNCHANGED <<start_button, progress_bar, signals, message_boxes>>
    /\ UNCHANGED <<pc, notes_vars, segment_vars, main_vars, transcribe_vars>>

\* a call raises: "except Exception" emits finished_signal(False, ...)
WorkerRaises(w) ==
    /\ InRun(w)
    /\ workers' = [workers EXCEPT ![w].at = "finished",
                                  ![w].raised = TRUE,
                                  ![w].emitted = Append(@, FALSE)]
    /\ signals' = Append(signals, [worker |-> w, success |-> FALSE])
    /\ UNCHANGED <<start_button, progress_bar, message_boxes>>
    /\ UNCHANGED <<pc, notes_vars, segment_vars, main_vars, transcribe_vars>>

\* the steps of the worker threads
run == \E w \in 1..Len(workers) : WorkerCall(w) \/ WorkerSucceeds(w) \/ WorkerRaises(w)

(***************************************************************************)
(* meeting_transcriber_gui.py: the handlers of the main window             *)
(***************************************************************************)
\* a click reaches the Start button: the button is enabled and no modal
\* message box is open
Clickable == start_button /\ message_boxes = <<>>

\* mutant: the Start button is left enabled
MutStartTranscription(valid, limit) ==
    /\ Clickable
    /\ IF ~valid
       THEN /\ message_boxes' = Append(message_boxes, "Missing Input")
            /\ UNCHANGED <<start_button, progress_bar, workers>>
       ELSE /\ Len(workers) < limit
            /\ progress_bar' = TRUE
            /\ workers' = Append(workers, Worker("setup", {}, <<>>))
            /\ UNCHANGED <<message_boxes, start_button>>
    /\ UNCHANGED signals
    /\ UNCHANGED <<pc, notes_vars, segment_vars, main_vars, transcribe_vars>>

\* start_transcription, the slot of the clicked signal of the Start button;
\* valid tells whether the inputs pass the four checks, limit bounds the
\* number of workers ever created
start_transcription(valid, limit) ==
    /\ Clickable
    /\ IF ~valid
       THEN /\ message_boxes' = Append(message_boxes, "Missing Input")
            /\ UNCHANGED <<start_button, progress_bar, workers>>
       ELSE /\ Len(workers) < limit
            /\ progress_bar' = TRUE
            /\ start_button' = FALSE
            /\ workers' = Append(workers, Worker("setup", {}, <<>>))
            /\ UNCHANGED message_boxes
    /\ UNCHANGED signals
    /\ UNCHANGED <<pc, notes_vars, segment_vars, main_vars, transcribe_vars>>

\* transcription_finished, the slot of finished_signal: the emission is
\* delivered by the event loop of the main thread
transcription_finished ==
    /\ signals # <<>>
    /\ signals' = Tail(signals)
    /\ progress_bar' = FALSE
    /\ start_button' = TRUE
    /\ message_boxes' =
          Append(message_boxes, IF Head(signals).success THEN "Success" ELSE "Error")
    /\ UNCHANGED workers
    /\ UNCHANGED <<pc, notes_vars, segment_vars, main_vars, transcribe_vars>>

\* the user closes the message box on top
CloseMessageBox ==
    /\ message_boxes # <<>>
    /\ message_boxes' = SubSeq(message_boxes, 1, Len(message_boxes) - 1)
    /\ UNCHANGED <<start_button, progress_bar, workers, signals>>
    /\ UNCHANGED <<pc, notes_vars, segment_vars, main_vars, transcribe_vars>>

(***************************************************************************)
(* Inputs                                                                  *)
(***************************************************************************)
MaxLines == 3           \* lines of a free-form completion
MaxItems == 3           \* item lines of a list section
MaxBullets == 16        \* bullets of a completion without headings
MaxActionItems == 2     \* action items handed to the renderer directly
MaxTokens == 4          \* items of a transcription output

\* all sequences over S of length 0..n
RECURSIVE SeqsUpTo(_, _)
SeqsUpTo(S, n) ==
    IF n = 0 THEN {<<>>}
    ELSE LET shorter == SeqsUpTo(S, n - 1)
         IN  shorter \cup {Append(q, x) : q \in {r \in shorter : Len(r) = n - 1}, x \in S}

CompletionLines ==
    {"## Summary", "# Risks", "### summary", "#  ", "Hello.", "", "- a",
     "1. b (Owner: Bob)"}

FreeCompletions == {Join(ls, "\n") : ls \in SeqsUpTo(CompletionLines, MaxLines)}

\* the completion of the end-to-end example
EndToEndExample ==
    "## Summary\nHello.\n\n## Key Takeaways\n- **Technical**: uses v2 API\n\n## Action Items\n1. Ship it (Owner: Bob)"

\* one list section: a heading and item lines in both marker forms
ListHeadings ==
    {"## Key Takeaways", "## Action Items", "## Decisions",
     "## Technical Details", "## Cost", "## Risks"}
ListItemLines == {"- a", "- b", "- c", "* d", "1. a", "2. b"}
ListCompletions ==
    {h \o "\n" \o Join(ls, "\n") :
        h \in ListHeadings, ls \in SeqsUpTo(ListItemLines, MaxItems) \ {<<>>}}

\* completions without headings: an opening and n bullets
RECURSIVE BulletBlock(_, _)
BulletBlock(i, n) ==
    IF i > n THEN ""
    ELSE "- b" \o IntToStr(i) \o (IF i < n THEN "\n" ELSE "") \o BulletBlock(i + 1, n)
Openings == {"", "Intro.\n\n", " \n\nIntro.\nMore.\n\n"}
BulletCompletions == {o \o BulletBlock(1, n) : o \in Openings, n \in 0..MaxBullets}

\* an action item of a labelled subsection that wraps over two lines
WrappedItemExample == "## Action Items\nOps:\n- Jane will deploy\nlater (Owner: Bob)"

Completions ==
    FreeCompletions \cup {EndToEndExample, WrappedItemExample}
    \cup ListCompletions \cup BulletCompletions

Participant(name, id, role, org) ==
    [name |-> name, id |-> id, role |-> role, organization |-> org]

Jane == Participant(<<"Jane">>, <<>>, <<>>, <<>>)
BobById == Participant(<<>>, <<"Bob">>, <<"PM">>, <<"Acme">>)
Speaker0 == Participant(<<"Speaker 0">>, <<"spk_0">>, <<>>, <<>>)

\* None, the empty list, and lists of records with name and/or id
ParticipantLists == {<<>>, << <<>> >>, << <<Jane>> >>, << <<Speaker0, BobById, Jane>> >>}

\* action items handed to format_enhanced_meeting_notes: annotated ones (with
\* and without deadline, with a category, wrapped, with several
\* parentheticals, with an owner that could also be inferred) and plain ones
ActionItemTexts ==
    {"Fix bug (Owner: Jane, Deadline: Friday)",
     "**Ops**: Deploy (Owner: Bob, Deadline: Mon)",
     "**Ops**: Jane will deploy\nlater (Owner: Bob)",
     "A (Owner: Jane, Deadline: Fri) B (Owner: Bob, Deadline: Mon)",
     "Jane will test (Owner: Bob)",
     "Jane will fix the bug",
     "Review assigned to Bob",
     "Jane Doe will review"}

KeyPointLists == {<<>>, <<"**Technical**: uses v2 API", "Note">>}

\* the items of a transcription output: words with a start time, and marks
Words == {"Hi", "yo"}
Marks == {","}
StartTimes == {1, 2}
Speakers == {"spk_0", "spk_1"}

Tokens ==
    {Item("pronunciation", <<t>>, w) : t \in StartTimes, w \in Words}
    \cup {Item("punctuation", <<>>, m) : m \in Marks}

\* segments that do not overlap: one segment with both start times, one
\* segment per start time, or a segment for the first start time only
SegmentLists ==
    {<<Segment(a, <<1, 2>>)>> : a \in Speakers}
    \cup {<<Segment(a, <<1>>), Segment(b, <<2>>)>> : a \in Speakers, b \in Speakers}
    \cup {<<Segment(a, <<1>>)>> : a \in Speakers}

\* before parse_bedrock_response is called
NotesIdle ==
    /\ response_text = ""
    /\ participants = <<>>
    /\ has_speaker_segments = FALSE
    /\ sections = <<>>
    /\ summary = ""
    /\ key_points = <<>>
    /\ action_items = <<>>
    /\ notes = ""
    /\ rendered = <<>>

\* the locals of process_speaker_segments before its loops
SegmentsIdle ==
    /\ word_to_speaker = <<>>
    /\ next_item = 1
    /\ current_speaker = <<>>
    /\ current_segment = ""
    /\ formatted_transcript = <<>>

\* main() is not running
MainIdle ==
    /\ main_pc = "idle"
    /\ transcript = <<>>
    /\ files = <<>>
    /\ exceptions = <<>>

\* transcribe_with_aws is not running
TranscribeIdle ==
    /\ transcribe_pc = "idle"
    /\ job = "NONE"
    /\ job_status = "NONE"
    /\ dots = 0
    /\ enable_diarization = FALSE
    /\ data = <<>>
    /\ result = <<>>
    /\ error = ""

\* the main window after init_ui, no worker created
GuiIdle ==
    /\ start_button = TRUE
    /\ progress_bar = FALSE
    /\ workers = <<>>
    /\ signals = <<>>
    /\ message_boxes = <<>>

ControlIdle == MainIdle /\ TranscribeIdle /\ GuiIdle

(***************************************************************************)
(* Specification of the pipeline: a completion is parsed and rendered      *)
(***************************************************************************)
Init ==
    /\ response_text \in Completions
    /\ participants \in {<<>>, << <<Jane>> >>}
    /\ has_speaker_segments = FALSE
    /\ pc = "split"
    /\ sections = <<>>
    /\ summary = ""
    /\ key_points = <<>>
    /\ action_items = <<>>
    /\ notes = ""
    /\ rendered = <<>>
    /\ items = <<>>
    /\ segments = <<>>
    /\ SegmentsIdle
    /\ ControlIdle

Spec == Init /\ [][Next]_vars

(***************************************************************************)
(* Specification of the renderer: format_enhanced_meeting_notes is called  *)
(* with a summary, key points, action items and participants               *)
(***************************************************************************)
InitFormat ==
    /\ response_text = ""
    /\ sections = <<>>
    /\ summary = "Hello."
    /\ key_points \in KeyPointLists
    /\ action_items \in SeqsUpTo(ActionItemTexts, MaxActionItems)
    /\ participants \in ParticipantLists
    /\ has_speaker_segments \in BOOLEAN
    /\ pc = "format"
    /\ notes = ""
    /\ rendered = <<>>
    /\ items = <<>>
    /\ segments = <<>>
    /\ SegmentsIdle
    /\ ControlIdle

SpecFormat == InitFormat /\ [][Format]_vars

(***************************************************************************)
(* Specification of the speaker-segment reconstruction:                    *)
(* process_speaker_segments is called with a transcription output          *)
(***************************************************************************)
InitSegments ==
    /\ items \in SeqsUpTo(Tokens, MaxTokens)
    /\ segments \in SegmentLists
    /\ SegmentsIdle
    /\ ControlIdle
    /\ pc = "map_speakers"
    /\ NotesIdle

SpecSegments == InitSegments /\ [][process_speaker_segments]_vars

(***************************************************************************)
(* Specification of the renderer for lists of key points                   *)
(***************************************************************************)
MaxKeyPoints == 2       \* key points handed to the renderer directly

\* key points in the bold form (free-form and reserved labels, in several
\* spellings, one with a wrapped content), in the plain form (one word,
\* a reserved word, two words) and without a prefix
KeyPointTexts ==
    {"**Risk**: Server may fail",
     "**decision**: go",
     "**COST**: 5k",
     "**Ops**: deploy",
     "**Ops**: first\nsecond",
     "Budget: 10",
     "Risk: Server may fail",
     "Cost Analysis: 5k",
     "Plain point"}

\* one key point for each dedicated list, a free-form one and a plain one
AllListsExample ==
    <<"**Ops**: deploy", "Plain point", "**Decision**: go", "**Technical**: uses v2 API",
      "**Cost**: 5k", "**Risk**: Server may fail">>

\* the other arguments of the call: summary, action_items, participants and
\* has_speaker_segments -- empty ones, filled ones, and a summary that holds
\* a heading line (the heuristic summary of a completion "## Overview ...")
OtherArguments ==
    {<<"", <<>>, <<>>, FALSE>>,
     <<"Hello.", <<>>, << <<>> >>, TRUE>>,
     <<"Hello.", <<"Jane will fix the bug">>, <<>>, FALSE>>,
     <<"Hello.", <<"Jane will fix the bug">>, << <<Jane>> >>, TRUE>>,
     <<"## Overview\nText", <<>>, << <<Jane>> >>, FALSE>>}

InitKeyPoints ==
    /\ response_text = ""
    /\ sections = <<>>
    /\ key_points \in SeqsUpTo(KeyPointTexts, MaxKeyPoints) \cup {AllListsExample}
    /\ \E a \in OtherArguments :
          /\ summary = a[1]
          /\ action_items = a[2]
          /\ participants = a[3]
          /\ has_speaker_segments = a[4]
    /\ pc = "format"
    /\ notes = ""
    /\ rendered = <<>>
    /\ items = <<>>
    /\ segments = <<>>
    /\ SegmentsIdle
    /\ ControlIdle

SpecKeyPoints == InitKeyPoints /\ [][Format]_vars

(***************************************************************************)
(* Specification of the pipeline for completions made of sections whose    *)
(* bodies hold list items, inline labels, wrapped lines and sub-headings   *)
(***************************************************************************)
MaxBodyLines == 3       \* body lines of a section of a structured completion

BodyLines == {"- a", "* b", "Ops:", "Dev Team:", "more", "Note: x", ""}

SectionBodies == {Join(ls, "\n") : ls \in SeqsUpTo(BodyLines, MaxBodyLines)}

ListSectionHeadings == {"## Key Takeaways", "## Action Items"}

\* longer completions: several labels, decisions next to key takeaways,
\* repeated headings, sub-headings, wrapped items
StructuredExamples ==
    {"## Key Takeaways\n- g\nOps:\n- a\nDev Team:\n- b\n\n## Action Items\n1. x\nDev Team:\n- y\nOps:\n2. z",
     "## Key Takeaways\nDev Team:\n- b\n* c\nOps:\n- a\n\n## Action Items\nOps:\n- z",
     "## Key Takeaways\n- d\n\n## Decisions\n- d\n2. e\n- d",
     "## Decisions Made\n1. go",
     "## Key Takeaways\nOps:\n- a\n\n## Key Decisions\n* d",
     "## Summary\nHello.\n## Summary\nBye.",
     "## Summary\nHello.\n### summary",
     "## Action Items\n- a\n## Action Items\n- b",
     "## Key Takeaways\n- a\n# Key Takeaways",
     "## Key Takeaways\n- g\n### Ops\n- a",
     "## Action Items\n### Ops\n- a\n### Dev Team\n1. b",
     "## Key Takeaways\n### Ops\n- a",
     "## Action Items\n1. c\nmore\nand more\n2. d",
     "## Action Items\n- a\nDeadline: Friday\n- b",
     "## Key Takeaways\nOps:\n- a\nOps:\n- b"}

\* a decisions section after nothing else or after key takeaways
DecisionHeadings == {"## Decisions", "### Decisions Made", "# KEY DECISIONS"}
DecisionBodies == {Join(ls, "\n") : ls \in SeqsUpTo({"- d", "2. e"}, MaxItems)}
BeforeDecisions ==
    {"Intro.", "## Key Takeaways\n- d", "## Key Takeaways\nOps:\n- a\n* d"}

DecisionCompletions ==
    {k \o "\n\n" \o h \o "\n" \o b :
        k \in BeforeDecisions, h \in DecisionHeadings, b \in DecisionBodies}

StructuredCompletions ==
    {h \o "\n" \o b : h \in ListSectionHeadings, b \in SectionBodies}
        \cup StructuredExamples \cup DecisionCompletions

InitSections ==
    /\ response_text \in StructuredCompletions
    /\ participants = <<>>
    /\ has_speaker_segments = FALSE
    /\ pc = "split"
    /\ sections = <<>>
    /\ summary = ""
    /\ key_points = <<>>
    /\ action_items = <<>>
    /\ notes = ""
    /\ rendered = <<>>
    /\ items = <<>>
    /\ segments = <<>>
    /\ SegmentsIdle
    /\ ControlIdle

SpecSections == InitSections /\ [][Next]_vars

(***************************************************************************)
(* Specification of a run of main: the audio file is transcribed, notes    *)
(* are generated with Bedrock or by the fallback, and the files are saved  *)
(***************************************************************************)
Turn(speaker, text) == [speaker |-> <<speaker>>, text |-> text]

\* the plain text, and the structure returned when speaker labels are present
TranscriptTexts == {"Hello.", "We will ship. Done. Ann must pay."}
SpeakerSegmentLists ==
    {<<>>, <<Turn("spk_0", "Hi")>>, <<Turn("Unknown", "Hi"), Turn("Unknown", "yo")>>,
     <<Turn("spk_0", "Hi"), Turn("spk_1", "yo"), Turn("spk_0", "Hi")>>,
     <<Turn("spk_1", "Hi"), Turn("Unknown", "yo"), Turn("spk_0", "Hi")>>}
Transcripts ==
    {[full_transcript |-> t, speaker_segments |-> <<>>] : t \in TranscriptTexts}
    \cup {[full_transcript |-> t, speaker_segments |-> <<q>>] :
            t \in TranscriptTexts, q \in SpeakerSegmentLists}

\* completions of the model for the transcript
MainCompletions ==
    {"", "## Summary\nHello.\n## Key Takeaways\n- a",
     "## Action Items\n1. Speaker 0 and Speaker 1 meet\n2. Unknown will pay",
     "## Action Items\n1. Fix (Owner: Jane , Deadline: Fri) now (Owner: Bob)\n2. (Owner:Ann) Pay",
     "## Action Items\n- Tests: add (Owner: Jane)\n- Pay (Owner: Ann\nLee)"}

InitMain ==
    /\ main_pc = "transcribe"
    /\ transcript = <<>>
    /\ files = <<>>
    /\ exceptions = <<>>
    /\ TranscribeIdle
    /\ GuiIdle
    /\ pc = "idle"
    /\ NotesIdle
    /\ items = <<>>
    /\ segments = <<>>
    /\ SegmentsIdle

main ==
    \/ MainTranscribe(Transcripts) \/ MainSaveTranscript
    \/ MainGenerate(MainCompletions) \/ MainParse \/ MainParticipants
    \/ MainFormat \/ MainFallback \/ MainSaveNotes

SpecMain == InitMain /\ [][main]_vars

(***************************************************************************)
(* Specification of a call of transcribe_with_aws: the job is started and  *)
(* polled while AWS Transcribe works on it                                 *)
(***************************************************************************)
\* the output of a completed job: the transcript, the items and, when the
\* job ran with speaker labels, the segments
Output(text, list, labels) ==
    [transcript |-> text, items |-> list, speaker_labels |-> labels]

HiYo == <<Item("pronunciation", <<1>>, "Hi"), Item("punctuation", <<>>, ","),
          Item("pronunciation", <<2>>, "yo")>>

TranscriptionOutputs ==
    {Output("", <<>>, <<>>), Output("Hi, yo", HiYo, <<>>),
     Output("", <<>>, << <<>> >>),
     Output("Hi, yo", HiYo, << <<Segment("spk_0", <<1, 2>>)>> >>),
     Output("Hi, yo", HiYo, << <<Segment("spk_0", <<1>>), Segment("spk_1", <<2>>)>> >>)}

InitTranscribe ==
    /\ transcribe_pc = "start"
    /\ job = "NONE"
    /\ job_status = "NONE"
    /\ dots = 0
    /\ enable_diarization \in BOOLEAN
    /\ data = <<>>
    /\ result = <<>>
    /\ error = ""
    /\ MainIdle
    /\ GuiIdle
    /\ pc = "idle"
    /\ NotesIdle
    /\ items = <<>>
    /\ segments = <<>>
    /\ SegmentsIdle

\* the steps of the call
transcribe_with_aws ==
    \/ StartJob \/ PollJob \/ Sleep \/ Download(TranscriptionOutputs)
    \/ ProcessSegments \/ ReturnWithSpeakers \/ JobFailed

NextTranscribe == transcribe_with_aws \/ JobAdvances

SpecTranscribe == InitTranscribe /\ [][NextTranscribe]_vars

\* the call goes on as long as it has a step to take; nothing is assumed
\* about AWS Transcribe
FairTranscribe == SpecTranscribe /\ WF_vars(transcribe_with_aws)

(***************************************************************************)
(* Specification of the main window: the user clicks Start and closes      *)
(* message boxes while worker threads run and their signals are delivered  *)
(***************************************************************************)
MaxRuns == 3            \* workers created in one session of the window

InitGui ==
    /\ GuiIdle
    /\ MainIdle
    /\ TranscribeIdle
    /\ pc = "idle"
    /\ NotesIdle
    /\ items = <<>>
    /\ segments = <<>>
    /\ SegmentsIdle

NextGui ==
    \/ \E valid \in BOOLEAN : start_transcription(valid, MaxRuns)
    \/ run
    \/ transcription_finished
    \/ CloseMessageBox

SpecGui == InitGui /\ [][NextGui]_vars

\* a worker thread that is inside run goes on, and the event loop of the
\* main thread delivers an emitted signal
FairGui == SpecGui /\ WF_vars(run) /\ WF_vars(transcription_finished)

(***************************************************************************)
(* Properties of the pipeline                                              *)
(***************************************************************************)
\* the texts of parts occur in s one after the other, from position pos on
RECURSIVE InOrderFrom(_, _, _)
InOrderFrom(s, parts, pos) ==
    IF parts = <<>> THEN TRUE
    ELSE LET k == Find(s, Head(parts), pos)
         IN  k # 0 /\ InOrderFrom(s, Tail(parts), k + Len(Head(parts)))

EndToEndDone == pc = "done" /\ response_text = EndToEndExample

\* C1 as stated: the document of the end-to-end example contains, in order,
\* the Summary section with "Hello.", a Key Takeaways section with a
\* Technical subsection holding the bullet "uses v2 API", and the Action
\* Items section with "1. Ship it **[Owner: Bob]**".
C1_TechnicalUnderKeyTakeaways ==
    EndToEndDone =>
        InOrderFrom(notes,
            <<"## Summary\n\nHello.\n", "## Key Takeaways\n", "### Technical\n",
              "- uses v2 API\n", "## Action Items\n",
              "1. Ship it **[Owner: Bob]**\n">>, 1)

\* C1 amended: the document of the end-to-end example contains, in order,
\* the Summary section with "Hello.", an empty Key Takeaways section, a
\* Technical Details section with the numbered line "1. uses v2 API", and
\* the Action Items section with "1. Ship it **[Owner: Bob]**"; there is no
\* Technical subsection.
C1_EndToEnd ==
    EndToEndDone =>
        /\ InOrderFrom(notes,
              <<"## Summary\n\nHello.\n\n",
                "## Key Takeaways\n\n## Technical Details\n\n1. uses v2 API\n\n",
                "## Action Items\n\n1. Ship it **[Owner: Bob]**\n">>, 1)
        /\ ~Contains(notes, "### Technical")

C1_Witness == EndToEndDone /\ Contains(notes, "1. uses v2 API")

\* an independent scan for heading lines: one or more '#', then white space
ScanIsHeading(line) ==
    \E k \in 1..(Len(line) - 1) :
        /\ \A j \in 1..k : Ch(line, j) = "#"
        /\ IsSpace(Ch(line, k + 1))

ScanHeadingText(line) ==
    LET k == MaxOf({j \in 1..Len(line) : \A i \in 1..j : Ch(line, i) = "#"})
    IN  StrLower(Strip(From(line, k + 1)))

ScannedHeadings(text) ==
    LET lines == Split(text, "\n")
    IN  {ScanHeadingText(lines[i]) : i \in {j \in 1..Len(lines) : ScanIsHeading(lines[j])}}

\* C3: once the section splitter has run, the keys of sections are exactly
\* the lower-cased texts of the heading lines of the completion.
C3_NoHeadingLost ==
    pc # "split" => DictKeys(sections) = ScannedHeadings(response_text)

AfterParse == {"format", "fmt_key_points", "fmt_action_items", "fmt_participants",
               "fmt_transcript", "done"}

\* C4: neither the parser nor the renderer raises, whatever the completion
\* and the participants, and the empty completion parses to an empty
\* summary, no key points and no action items.
C4_NeverRaises ==
    /\ pc # "raised"
    /\ (response_text = "" /\ pc \in AfterParse) =>
           summary = "" /\ key_points = <<>> /\ action_items = <<>>

C4_Witness == pc = "done" /\ response_text = "" /\ participants = <<>>

\* the first block between blank lines that is not blank, '' if none
FirstBlock(text) ==
    LET blocks == Split(text, "\n\n")
        filled == {i \in 1..Len(blocks) : Strip(blocks[i]) # ""}
    IN  IF filled = {} THEN "" ELSE blocks[MinOf(filled)]

Smaller(a, b) == IF a < b THEN a ELSE b

LineMarkerLen(line) ==
    IF Len(line) >= 2 /\ Ch(line, 1) \in {"-", "*"} /\ Ch(line, 2) = " " THEN 1
    ELSE LET d == MaxOf({j \in 0..Len(line) : \A i \in 1..j : IsDigit(Ch(line, i))})
         IN  IF d >= 1 /\ StartsAt(line, d + 1, ". ") THEN d + 1 ELSE 0

IsBulletLine(line) == LineMarkerLen(line) = 1 /\ ~IsDigit(Ch(line, 1))
LineItemText(line) == Strip(From(line, LineMarkerLen(line) + 1))

IsListCompletion(text) ==
    LET lines == Split(text, "\n")
    IN  /\ Len(lines) >= 2
        /\ lines[1] \in ListHeadings
        /\ \A i \in 2..Len(lines) : LineMarkerLen(lines[i]) > 0

ListedTexts(text) ==
    LET lines == Split(text, "\n")
    IN  [i \in 1..(Len(lines) - 1) |-> LineItemText(lines[i + 1])]

\* the items of a body in which only bullet lines start an item: a numbered
\* line before the first bullet is dropped, a later one continues the item
RECURSIVE BulletItemsOf(_, _)
BulletItemsOf(lines, acc) ==
    IF lines = <<>> THEN acc
    ELSE IF IsBulletLine(Head(lines))
    THEN BulletItemsOf(Tail(lines), Append(acc, LineItemText(Head(lines))))
    ELSE IF acc = <<>> THEN BulletItemsOf(Tail(lines), acc)
    ELSE BulletItemsOf(Tail(lines),
             [acc EXCEPT ![Len(acc)] = @ \o "\n" \o Head(lines)])

ListHeading(text) == Split(text, "\n")[1]

ListLabel(heading) ==
    CASE heading = "## Decisions" -> "**Decision**: "
      [] heading = "## Technical Details" -> "**Technical**: "
      [] heading = "## Cost" -> "**Cost**: "
      [] heading = "## Risks" -> "**Risk**: "
      [] OTHER -> ""

WithLabel(label, texts) == [i \in 1..Len(texts) |-> label \o texts[i]]

\* what the parser extracted from the list section of the completion
ExtractedList ==
    IF ListHeading(response_text) = "## Action Items" THEN action_items ELSE key_points

ListExtracted == pc = "heuristics" /\ IsListCompletion(response_text)

AfterActionItems == pc \in {"fmt_participants", "fmt_transcript", "done"}

\* an independent reading of the annotation of an action item: the
\* parenthetical from "(Owner:" to the next ")", 0 if there is none
AnnotationStart(x) == Find(x, "(Owner:", 1)
AnnotationEnd(x) ==
    IF AnnotationStart(x) = 0 THEN 0 ELSE Find(x, ")", AnnotationStart(x))
HasAnnotation(x) == AnnotationEnd(x) # 0

\* what stands between "(Owner:" and ")", and where its deadline part starts
AnnotationInner(x) == SubSeq(x, AnnotationStart(x) + 7, AnnotationEnd(x) - 1)
DeadlinePart(inner) == Find(inner, ", Deadline:", 1)

OwnerOfInner(inner, d) == Strip(IF d = 0 THEN inner ELSE SubSeq(inner, 1, d - 1))
DeadlineOfInner(inner, d) == IF d = 0 THEN <<>> ELSE <<Strip(From(inner, d + 11))>>

\* the X and the Y of "(Owner: X)" and "(Owner: X, Deadline: Y)"
AnnotatedOwner(x) == OwnerOfInner(AnnotationInner(x), DeadlinePart(AnnotationInner(x)))
AnnotatedDeadline(x) ==
    DeadlineOfInner(AnnotationInner(x), DeadlinePart(AnnotationInner(x)))

\* the text of an action item: what follows its "**Category**:" label, the
\* whole item when it has none
ItemText(x) ==
    IF CategoryMatch(x) = <<>> THEN x
    ELSE From(x, SkipSpace(x, Find(x, "**:", 1) + 3))

ExpectedTag(owner, deadline) ==
    IF deadline = <<>> THEN " **[Owner: " \o owner \o "]**\n"
    ELSE " **[Owner: " \o owner \o ", Deadline: " \o deadline[1] \o "]**\n"

\* some rendered line is a number followed by the text
RenderedAs(rs, text) ==
    \E k \in 1..Len(rs), n \in 1..Len(rs) :
        rs[k].line = IntToStr(n) \o ". " \o text

\* C7 as stated: every action item whose text holds "(Owner: X)" or
\* "(Owner: X, Deadline: Y)" is rendered as its text without the
\* parentheticals, followed by "**[Owner: X]**" or
\* "**[Owner: X, Deadline: Y]**" with the X and Y of the item; and
\* "Fix bug (Owner: Jane, Deadline: Friday)" is rendered as
\* "1. Fix bug **[Owner: Jane, Deadline: Friday]**".
C7_ExplicitAnnotation ==
    AfterActionItems =>
        /\ \A i \in 1..Len(action_items) :
              HasAnnotation(action_items[i]) =>
                 RenderedAs(rendered,
                     Strip(SubOwner(ItemText(action_items[i])))
                     \o ExpectedTag(AnnotatedOwner(action_items[i]),
                                    AnnotatedDeadline(action_items[i])))
        /\ action_items = <<"Fix bug (Owner: Jane, Deadline: Friday)">> =>
              rendered[1].line = "1. Fix bug **[Owner: Jane, Deadline: Friday]**\n"

\* the names and ids of the supplied participants
ParticipantValues(ps) ==
    IF ps = <<>> THEN {}
    ELSE {ps[1][j].name[1] : j \in {i \in 1..Len(ps[1]) : ps[1][i].name # <<>>}}
         \cup {ps[1][j].id[1] : j \in {i \in 1..Len(ps[1]) : ps[1][i].id # <<>>}}

\* C8: the owner that infer_owner_from_text returns for the text of a
\* rendered item is no owner or the name or id of a supplied participant;
\* it is no owner when the participants are missing or empty; and it is
\* "Jane" for "Jane will fix the bug" with the one participant named Jane.
C8_NoInventedOwner ==
    AfterActionItems =>
        \A k \in 1..Len(rendered) :
            rendered[k].inferred =>
                /\ \/ rendered[k].owner = <<>>
                   \/ rendered[k].owner[1] \in ParticipantValues(participants)
                /\ participants \in {<<>>, << <<>> >>} => rendered[k].owner = <<>>
                /\ (rendered[k].item = "Jane will fix the bug"
                      /\ participants = << <<Jane>> >>) =>
                        rendered[k].owner = <<"Jane">>

C8_Witness ==
    /\ AfterActionItems
    /\ participants = << <<Jane>> >>
    /\ \E k \in 1..Len(rendered) :
          /\ rendered[k].item = "Jane will fix the bug"
          /\ rendered[k].inferred
          /\ rendered[k].owner = <<"Jane">>
          /\ rendered[k].line = IntToStr(k) \o ". Jane will fix the bug **[Owner: Jane]**\n"

\* C9 as stated: an action item that carries an "(Owner: ...)" annotation is
\* rendered with the owner of its annotation and without an attempt to
\* infer one, and a rendered line holds a deadline only when it is the
\* deadline of the annotation of an action item.
C9_AnnotationPrecedence ==
    AfterActionItems =>
        /\ \A i \in 1..Len(action_items) :
              HasAnnotation(action_items[i]) =>
                 \E k \in 1..Len(rendered) :
                    /\ Contains(action_items[i], rendered[k].item)
                    /\ ~rendered[k].inferred
                    /\ rendered[k].owner = <<AnnotatedOwner(action_items[i])>>
        /\ \A k \in 1..Len(rendered) :
              Contains(rendered[k].line, "Deadline:") =>
                 \E i \in 1..Len(action_items) :
                    /\ AnnotatedDeadline(action_items[i]) # <<>>
                    /\ rendered[k].deadline = AnnotatedDeadline(action_items[i])

\* the number of occurrences of p in s
CountOf(s, p) == Cardinality({j \in 1..Len(s) : StartsAt(s, j, p)})

RECURSIVE WithoutMarks(_)
WithoutMarks(w) ==
    IF w # "" /\ SubSeq(w, Len(w), Len(w)) \in Marks
    THEN WithoutMarks(SubSeq(w, 1, Len(w) - 1))
    ELSE w

WordsOf(text) ==
    LET parts == Split(text, " ") IN [i \in 1..Len(parts) |-> WithoutMarks(parts[i])]

\* the words of the texts of the turns, in order
RECURSIVE TurnWords(_)
TurnWords(turns) ==
    IF turns = <<>> THEN <<>>
    ELSE WordsOf(Head(turns).text) \o TurnWords(Tail(turns))

\* the contents of the pronunciation items, in order
RECURSIVE PronunciationWords(_)
PronunciationWords(list) ==
    IF list = <<>> THEN <<>>
    ELSE (IF Head(list).type = "pronunciation" THEN <<Head(list).content>> ELSE <<>>)
         \o PronunciationWords(Tail(list))

\* every pronunciation item starts at a time that some segment holds
Covered ==
    \A i \in 1..Len(items) :
        items[i].type = "pronunciation" =>
            \E j \in 1..Len(segments) :
                \E t \in 1..Len(segments[j].items) :
                    segments[j].items[t] = items[i].start_time[1]

\* C2: when the segments cover every pronunciation item, the words of the
\* returned turns, read in order and without the marks attached to them,
\* are the contents of the pronunciation items in their order.
C2_TextPreserved ==
    (pc = "returned" /\ Covered) =>
        TurnWords(formatted_transcript) = PronunciationWords(items)

C2_Witness ==
    /\ pc = "returned" /\ Covered
    /\ Len(formatted_transcript) = 2
    /\ Len(PronunciationWords(items)) = 3
    /\ \E i \in 1..Len(formatted_transcript) :
          Contains(formatted_transcript[i].text, ", ")

(***************************************************************************)
(* Properties of the categorisation of key points                          *)
(***************************************************************************)
\* the key points have been rendered
AfterKeyPoints ==
    pc \in {"fmt_action_items", "fmt_participants", "fmt_transcript", "done"}

\* an independent reading of the bold form "**Label**: content": the
\* position of the "**:" that closes a label without '*', 0 if none
BoldLabelEnd(p) ==
    IF StartsAt(p, 1, "**") /\ Find(p, "**:", 3) > 3
          /\ \A j \in 3..(Find(p, "**:", 3) - 1) : Ch(p, j) # "*"
    THEN Find(p, "**:", 3) ELSE 0

IsBold(p) == BoldLabelEnd(p) # 0
BoldLabel(p) == Strip(SubSeq(p, 3, BoldLabelEnd(p) - 1))
BoldContent(p) == Strip(From(p, BoldLabelEnd(p) + 3))

\* the label is one of the four reserved words, whatever its case
ReservedLabels == {"decision", "technical", "cost", "risk"}
IsReserved(label) == StrLower(label) \in ReservedLabels

\* the dedicated list of a reserved label in the result of the categorisation
DedicatedList(c, label) ==
    IF StrLower(label) = "decision" THEN c.decisions
    ELSE IF StrLower(label) = "technical" THEN c.technical
    ELSE IF StrLower(label) = "cost" THEN c.cost
    ELSE c.risks

\* x is an element of the list
InList(list, x) == \E i \in 1..Len(list) : list[i] = x

\* content is filed under the category: in the dedicated list of a reserved
\* label, else in the free-form category of that name
FiledUnder(c, label, content) ==
    IF IsReserved(label) THEN InList(DedicatedList(c, label), content)
    ELSE DictHas(c.categorized, label) /\ InList(DictGet(c.categorized, label), content)

\* C11 for the categorisation c of the key points kps and the document doc
Categorised(c, kps, doc) ==
    /\ \A i \in 1..Len(kps) :
          /\ IsBold(kps[i]) => FiledUnder(c, BoldLabel(kps[i]), BoldContent(kps[i]))
          /\ (~IsBold(kps[i]) /\ ~Contains(kps[i], ":")) =>
                /\ InList(c.uncategorized, kps[i])
                /\ Contains(doc, "\n- " \o kps[i] \o "\n")
    /\ kps = <<"**Risk**: Server may fail">> => c.risks = <<"Server may fail">>
    /\ kps = <<"Plain point">> =>
          Contains(doc, "## Key Takeaways\n\n### General Points\n\n- Plain point\n\n")

\* C11 as stated: a key point "**Category**: content" is classified with the
\* category and the whole content ("**Risk**: Server may fail" gives the
\* category Risk and the content "Server may fail"), and a key point without
\* a prefix is left uncategorised, unchanged, and rendered as a plain bullet.
C11_Categorisation ==
    AfterKeyPoints =>
        Categorised(CategorizePoints(NoPoints, key_points), key_points, notes)

\* an independent reading of the plain form "Label: content": the position
\* of the first ':' when only letters and spaces stand before it, 0 if none
PlainLabelEnd(p) ==
    IF ~IsBold(p) /\ Find(p, ":", 1) > 1
          /\ \A j \in 1..(Find(p, ":", 1) - 1) : IsAlpha(Ch(p, j)) \/ Ch(p, j) = " "
    THEN Find(p, ":", 1) ELSE 0

IsPlain(p) == PlainLabelEnd(p) # 0
PlainLabel(p) == Strip(SubSeq(p, 1, PlainLabelEnd(p) - 1))
PlainContent(p) == Strip(From(p, PlainLabelEnd(p) + 1))

\* the plain form with a label of one word
IsPlainWord(p) == IsPlain(p) /\ ~Contains(PlainLabel(p), " ")

\* a reserved label goes to its dedicated list and is no free-form
\* category; any other label is a free-form category
Routed(c, label, content) ==
    IF IsReserved(label)
    THEN /\ InList(DedicatedList(c, label), content)
         /\ \A k \in DictKeys(c.categorized) : StrLower(k) # StrLower(label)
    ELSE DictHas(c.categorized, label)

\* C12 as stated: a key point with a reserved label (Decision, Technical,
\* Cost, Risk, in any case), in the bold form or in the plain form, has its
\* content in the dedicated list of the label and is in no free-form
\* category of Key Takeaways; every other label is a free-form category.
C12_ReservedRouting ==
    AfterKeyPoints =>
        \A i \in 1..Len(key_points) :
            /\ IsBold(key_points[i]) =>
                  Routed(CategorizePoints(NoPoints, key_points),
                         BoldLabel(key_points[i]), BoldContent(key_points[i]))
            /\ IsPlainWord(key_points[i]) =>
                  Routed(CategorizePoints(NoPoints, key_points),
                         PlainLabel(key_points[i]), PlainContent(key_points[i]))

\* C13 as stated: a key point "Label: content" whose label holds only
\* letters and spaces, also a label of several words such as
\* "Cost Analysis", is classified with the category Label and the content.
C13_PlainPrefix ==
    AfterKeyPoints =>
        \A i \in 1..Len(key_points) :
            IsPlain(key_points[i]) =>
                LET c == CategorizePoints(NoPoints, key_points)
                IN  /\ DictHas(c.categorized, PlainLabel(key_points[i]))
                    /\ InList(DictGet(c.categorized, PlainLabel(key_points[i])),
                              PlainContent(key_points[i]))

(***************************************************************************)
(* Properties of the layout of the document                                *)
(***************************************************************************)
\* the positions of the document where a line that is a level-2 heading
\* starts (the line breaks before them)
HeadingStarts(doc) == {j \in 1..Len(doc) : StartsAt(doc, j, "\n## ")}

\* some key point carries the reserved label, in the bold form
HasLabelled(kps, word) ==
    \E i \in 1..Len(kps) : IsBold(kps[i]) /\ StrLower(BoldLabel(kps[i])) = word

Kept(title, cond) == IF cond THEN <<"\n## " \o title \o "\n">> ELSE <<>>

\* the heading lines the document must have for the arguments of the renderer
ExpectedHeadings(kps, ais, ps) ==
    Kept("Summary", TRUE)
    \o Kept("Key Takeaways", TRUE)
    \o Kept("Decisions Made", HasLabelled(kps, "decision"))
    \o Kept("Technical Details", HasLabelled(kps, "technical"))
    \o Kept("Cost and Resource Considerations", HasLabelled(kps, "cost"))
    \o Kept("Risks and Issues", HasLabelled(kps, "risk"))
    \o Kept("Action Items", ais # <<>>)
    \o Kept("Participants", ps # <<>> /\ ps[1] # <<>>)
    \o Kept("Full Transcript", TRUE)

\* the document has exactly the expected heading lines, in their order
HeadingsAre(doc, starts, expected) ==
    /\ Cardinality(starts) = Len(expected)
    /\ InOrderFrom(doc, expected, 1)

\* the title is the first line, the footer starting at f is the last line
\* and stands after every level-2 heading
TitleAndFooter(doc, starts, f) ==
    /\ StartsAt(doc, 1, "# Meeting Notes - ")
    /\ f # 0
    /\ \A j \in starts : j < f
    /\ Find(doc, "\n", f + 5) = Len(doc)

Footer(doc) == Find(doc, "\n---\n*Notes generated on ", 1)

\* C16 as stated: for all arguments, the level-2 headings of the finished
\* document are Summary, Key Takeaways, Decisions Made, Technical Details,
\* Cost and Resource Considerations, Risks and Issues, Action Items,
\* Participants and Full Transcript, in this order; Summary, Key Takeaways
\* and Full Transcript are always there, each other one exactly when it has
\* content; the title is the first line and the footer the last.
C16_SectionOrderForAll ==
    pc = "done" =>
        /\ HeadingsAre(notes, HeadingStarts(notes),
                       ExpectedHeadings(key_points, action_items, participants))
        /\ TitleAndFooter(notes, HeadingStarts(notes), Footer(notes))

\* no line of the summary is a level-2 heading
PlainSummary == ~StartsAt(summary, 1, "## ") /\ ~Contains(summary, "\n## ")

\* C16 amended: the same, for a summary none of whose lines starts with
\* "## " (the texts handed to the renderer are copied into the document as
\* they are).
C16_SectionOrder ==
    (pc = "done" /\ PlainSummary) =>
        /\ HeadingsAre(notes, HeadingStarts(notes),
                       ExpectedHeadings(key_points, action_items, participants))
        /\ TitleAndFooter(notes, HeadingStarts(notes), Footer(notes))

C16_Witness ==
    /\ pc = "done"
    /\ key_points = AllListsExample
    /\ PlainSummary
    /\ Cardinality(HeadingStarts(notes)) = 9
    /\ Contains(notes, "## Risks and Issues\n\n1. Server may fail\n\n## Action Items\n")

(***************************************************************************)
(* Properties of the section bodies and their subsections                  *)
(***************************************************************************)
\* the heading lines of the completion whose lower-cased text is key
HeadingLines(lines, key) ==
    {i \in 1..Len(lines) : ScanIsHeading(lines[i]) /\ ScanHeadingText(lines[i]) = key}

\* the lines between line i and the next heading line
LinesAfter(lines, i) ==
    LET next == MinOf({j \in (i + 1)..(Len(lines) + 1) :
                          j = Len(lines) + 1 \/ ScanIsHeading(lines[j])})
    IN  SubSeq(lines, i + 1, next - 1)

BodyAfter(lines, i) == Strip(Join(LinesAfter(lines, i), "\n"))

\* the body the splitter stored for key; none counts as the empty body
StoredBody(key) == IF DictHas(sections, key) THEN DictGet(sections, key) ELSE ""

Repeated(lines, key) == Cardinality(HeadingLines(lines, key)) >= 2

LastHeadingWins(lines) ==
    \A i \in 1..Len(lines) :
        (ScanIsHeading(lines[i]) /\ Repeated(lines, ScanHeadingText(lines[i]))) =>
            StoredBody(ScanHeadingText(lines[i])) =
                BodyAfter(lines, MaxOf(HeadingLines(lines, ScanHeadingText(lines[i]))))

\* C17: when several heading lines of the completion have the same
\* lower-cased text, the body stored under that key by the section splitter
\* is the body of the last of them, also when that body has no lines.
C17_LastHeadingWins ==
    pc # "split" => LastHeadingWins(Split(response_text, "\n"))

\* a "### Label" line, and a heading line of a higher level
IsLabelHeading(line) == StartsAt(line, 1, "### ")
IsSectionHeading(line) == ScanIsHeading(line) /\ ~StartsAt(line, 1, "###")

\* line m is an item line below the sub-heading line j of the list section
\* that line i opens
ItemUnderSubHeading(lines, i, j, m, numbered) ==
    /\ i < j /\ j < m
    /\ IsLabelHeading(lines[j])
    /\ \A n \in (i + 1)..j : ~IsSectionHeading(lines[n])
    /\ \A n \in (j + 1)..m : ~ScanIsHeading(lines[n])
    /\ LineMarkerLen(lines[m]) > 0
    /\ numbered \/ IsBulletLine(lines[m])

SubHeadingItems(lines, heading, list, numbered) ==
    \A i \in 1..Len(lines), j \in 1..Len(lines), m \in 1..Len(lines) :
        (lines[i] = heading /\ ItemUnderSubHeading(lines, i, j, m, numbered)) =>
            InList(list, "**" \o Strip(From(lines[j], 5)) \o "**: "
                              \o LineItemText(lines[m]))

SubHeadingLabels(lines) ==
    /\ SubHeadingItems(lines, "## Key Takeaways", key_points, FALSE)
    /\ SubHeadingItems(lines, "## Action Items", action_items, TRUE)

\* C19: the list items below a "### Label" sub-heading of a Key Takeaways
\* or Action Items section are returned as key points, respectively action
\* items, each prefixed "**Label**: ".
C19_SubHeadingLabels ==
    pc = "format" => SubHeadingLabels(Split(response_text, "\n"))

\* an independent, line-by-line reading of the body of a list section
\* the line starts with letters and spaces followed by a colon
StartsWithLabel(line) ==
    LET c == Find(line, ":", 1)
    IN  c > 1 /\ \A j \in 1..(c - 1) : IsAlpha(Ch(line, j)) \/ Ch(line, j) = " "

\* the line is "Label:" and nothing else
IsLabelLine(line) == StartsWithLabel(line) /\ Find(line, ":", 1) = Len(line)

IsItemLine(line, numbered) ==
    LineMarkerLen(line) > 0 /\ (numbered \/ IsBulletLine(line))

\* with whole, only a "Label:" line is a label; without, every line that
\* starts with a label is one
ReadsAsLabel(line, whole) == IF whole THEN IsLabelLine(line) ELSE StartsWithLabel(line)

WithPrefix(label, text) ==
    IF label = <<>> THEN text ELSE "**" \o label[1] \o "**: " \o text

\* label is the label in force, open tells that the last item may still be
\* continued by the next line, acc holds the items read so far
RECURSIVE ReadBody(_, _, _, _, _, _)
ReadBody(lines, numbered, whole, label, open, acc) ==
    IF lines = <<>> THEN acc
    ELSE LET line == Head(lines)
             rest == Tail(lines)
         IN  IF line = ""
             THEN ReadBody(rest, numbered, whole, label, FALSE, acc)
             ELSE IF IsItemLine(line, numbered)
             THEN ReadBody(rest, numbered, whole, label, TRUE,
                           Append(acc, WithPrefix(label, LineItemText(line))))
             ELSE IF ReadsAsLabel(line, whole)
             THEN ReadBody(rest, numbered, whole, <<RStripColon(line)>>, FALSE, acc)
             ELSE IF open
             THEN ReadBody(rest, numbered, whole, label, TRUE,
                           [acc EXCEPT ![Len(acc)] = @ \o "\n" \o line])
             ELSE ReadBody(rest, numbered, whole, label, FALSE, acc)

ItemsRead(body, numbered, whole) == ReadBody(body, numbered, whole, <<>>, FALSE, <<>>)

\* the body lines of the only section of the completion with this heading
HasOneSection(lines, key) == Cardinality(HeadingLines(lines, key)) = 1
SectionLines(lines, key) == LinesAfter(lines, MaxOf(HeadingLines(lines, key)))

\* no line of the body continues an item: each is blank, an item line or a
\* "Label:" line
ItemsAndLabelsOnly(body, numbered) ==
    \A i \in 1..Len(body) :
        body[i] = "" \/ IsItemLine(body[i], numbered) \/ IsLabelLine(body[i])

\* no label occurs on two lines of the body
DistinctLabels(body) ==
    \A i \in 1..Len(body), j \in 1..Len(body) :
        (i < j /\ StartsWithLabel(body[i])) => body[i] # body[j]

IsPrefixOf(p, list) == Len(p) <= Len(list) /\ SubSeq(list, 1, Len(p)) = p

\* the items of the section are read as the parser returned them
KeyPointsAsRead(body, whole) == IsPrefixOf(ItemsRead(body, FALSE, whole), key_points)
ActionItemsAsRead(body, whole) == action_items = ItemsRead(body, TRUE, whole)

LabelledAsRead(lines) ==
    /\ (HasOneSection(lines, "key takeaways")
           /\ ItemsAndLabelsOnly(SectionLines(lines, "key takeaways"), FALSE))
        => KeyPointsAsRead(SectionLines(lines, "key takeaways"), TRUE)
    /\ (HasOneSection(lines, "action items")
           /\ ItemsAndLabelsOnly(SectionLines(lines, "action items"), TRUE))
        => ActionItemsAsRead(SectionLines(lines, "action items"), TRUE)

LabelledAsReadWhenDistinct(lines) ==
    /\ (HasOneSection(lines, "key takeaways")
           /\ ItemsAndLabelsOnly(SectionLines(lines, "key takeaways"), FALSE)
           /\ DistinctLabels(SectionLines(lines, "key takeaways")))
        => KeyPointsAsRead(SectionLines(lines, "key takeaways"), TRUE)
    /\ (HasOneSection(lines, "action items")
           /\ ItemsAndLabelsOnly(SectionLines(lines, "action items"), TRUE)
           /\ DistinctLabels(SectionLines(lines, "action items")))
        => ActionItemsAsRead(SectionLines(lines, "action items"), TRUE)

IsContinuation(line) == line # "" /\ LineMarkerLen(line) = 0

HasWrappedItem(body, numbered) ==
    /\ \A i \in 1..Len(body) : LineMarkerLen(body[i]) > 0 => IsItemLine(body[i], numbered)
    /\ \E i \in 1..(Len(body) - 1) :
           IsItemLine(body[i], numbered) /\ IsContinuation(body[i + 1])

WrappedAsRead(lines, whole) ==
    /\ (HasOneSection(lines, "key takeaways")
           /\ HasWrappedItem(SectionLines(lines, "key takeaways"), FALSE)
           /\ DistinctLabels(SectionLines(lines, "key takeaways")))
        => KeyPointsAsRead(SectionLines(lines, "key takeaways"), whole)
    /\ (HasOneSection(lines, "action items")
           /\ HasWrappedItem(SectionLines(lines, "action items"), TRUE)
           /\ DistinctLabels(SectionLines(lines, "action items")))
        => ActionItemsAsRead(SectionLines(lines, "action items"), whole)

DecisionNames == {"decisions", "decisions made", "key decisions"}

DecisionHeadingLines(lines) ==
    {i \in 1..Len(lines) :
        ScanIsHeading(lines[i]) /\ ScanHeadingText(lines[i]) \in DecisionNames}

\* the body holds list items and nothing else
ItemsOnly(body) ==
    /\ \E i \in 1..Len(body) : IsItemLine(body[i], TRUE)
    /\ \A i \in 1..Len(body) : body[i] = "" \/ IsItemLine(body[i], TRUE)

\* the key points read from the Key Takeaways section, if there is one
KeyTakeawaysRead(lines) ==
    IF HasOneSection(lines, "key takeaways")
    THEN ItemsRead(SectionLines(lines, "key takeaways"), FALSE, FALSE)
    ELSE <<>>

DecisionsAppended(lines, body) ==
    ItemsOnly(body) =>
        IsPrefixOf(KeyTakeawaysRead(lines)
                       \o WithLabel("**Decision**: ", ItemsRead(body, TRUE, TRUE)),
                   key_points)

DecisionsDuplicated(lines, at) ==
    (Cardinality(at) = 1 /\ ~Repeated(lines, "key takeaways")) =>
        DecisionsAppended(lines, LinesAfter(lines, MaxOf(at)))

RECURSIVE LabelsRead(_, _, _, _)
LabelsRead(lines, numbered, label, acc) ==
    IF lines = <<>> THEN acc
    ELSE IF IsItemLine(Head(lines), numbered)
    THEN LabelsRead(Tail(lines), numbered, label, Append(acc, label))
    ELSE IF StartsWithLabel(Head(lines))
    THEN LabelsRead(Tail(lines), numbered, <<RStripColon(Head(lines))>>, acc)
    ELSE LabelsRead(Tail(lines), numbered, label, acc)

\* the labels of labels, each once, in the order of their first item
RECURSIVE FirstEncounters(_, _)
FirstEncounters(labels, acc) ==
    IF labels = <<>> THEN acc
    ELSE IF Head(labels) = <<>> \/ InList(acc, Head(labels)[1])
    THEN FirstEncounters(Tail(labels), acc)
    ELSE FirstEncounters(Tail(labels), Append(acc, Head(labels)[1]))

CategoriesRead(lines, key, numbered) ==
    IF HasOneSection(lines, key)
    THEN FirstEncounters(LabelsRead(SectionLines(lines, key), numbered, <<>>, <<>>), <<>>)
    ELSE <<>>

\* where the section with this title starts in the document, after the
\* summary, and where the next section starts; 0 when there is none
SectionStart(doc, title) ==
    Find(doc, "\n## " \o title \o "\n\n",
         Find(doc, "## Summary\n\n", 1) + 12 + Len(summary))

SectionEnd(doc, start) ==
    IF Find(doc, "\n## ", start + 1) = 0 THEN Len(doc) + 1
    ELSE Find(doc, "\n## ", start + 1)

\* where the group with this heading starts within start..end, 0 if nowhere
GroupAt(doc, heading, start, end) ==
    LET k == IF start = 0 THEN 0 ELSE Find(doc, "\n### " \o heading \o "\n\n", start)
    IN  IF k < end THEN k ELSE 0

\* the groups of cats that are rendered come in the order of cats, and the
\* group of the items without category comes after them
GroupsInOrder(doc, cats, last, start, end) ==
    /\ \A i \in 1..Len(cats), j \in 1..Len(cats) :
          (i < j /\ GroupAt(doc, cats[i], start, end) # 0
                 /\ GroupAt(doc, cats[j], start, end) # 0)
              => GroupAt(doc, cats[i], start, end) < GroupAt(doc, cats[j], start, end)
    /\ \A i \in 1..Len(cats) :
          GroupAt(doc, last, start, end) # 0
              => GroupAt(doc, cats[i], start, end) < GroupAt(doc, last, start, end)

SectionInOrder(doc, cats, title, last) ==
    GroupsInOrder(doc, cats, last, SectionStart(doc, title),
                  SectionEnd(doc, SectionStart(doc, title)))

CategoryOrder(lines) ==
    /\ SectionInOrder(notes, CategoriesRead(lines, "key takeaways", FALSE),
                      "Key Takeaways", "General Points")
    /\ SectionInOrder(notes, CategoriesRead(lines, "action items", TRUE),
                      "Action Items", "Other Action Items")

HoldingSegments(t) ==
    {j \in 1..Len(segments) :
        \E k \in 1..Len(segments[j].items) : segments[j].items[k] = t}

ResolvedSpeaker(t) ==
    IF HoldingSegments(t) = {} THEN "Unknown"
    ELSE segments[MaxOf(HoldingSegments(t))].speaker_label

\* the turns as the attach-to-previous-word policy builds them: a word of
\* another speaker opens a turn, a word of the same speaker is appended
\* after a space, a punctuation token is appended once without a space
RECURSIVE TurnsRead(_, _, _, _)
TurnsRead(list, speaker, text, acc) ==
    IF list = <<>>
    THEN IF text = "" THEN acc ELSE Append(acc, [speaker |-> speaker, text |-> text])
    ELSE IF Head(list).type # "pronunciation"
    THEN TurnsRead(Tail(list), speaker,
                   IF text = "" THEN text ELSE text \o Head(list).content, acc)
    ELSE IF <<ResolvedSpeaker(Head(list).start_time[1])>> = speaker
    THEN TurnsRead(Tail(list), speaker, text \o " " \o Head(list).content, acc)
    ELSE TurnsRead(Tail(list), <<ResolvedSpeaker(Head(list).start_time[1])>>,
                   Head(list).content,
                   IF text = "" THEN acc
                   ELSE Append(acc, [speaker |-> speaker, text |-> text]))

\* every punctuation token comes directly after a pronunciation token
PunctuationFollowsWords ==
    \A i \in 1..Len(items) :
        items[i].type = "punctuation" =>
            i > 1 /\ items[i - 1].type = "pronunciation"

\* C21: every punctuation token that directly follows a pronunciation token
\* is appended to the text of the turn of that word exactly once, directly
\* after the word and without a space ("Hi" "," gives the text "Hi,").
C21_PunctuationOnce ==
    (pc = "returned" /\ PunctuationFollowsWords) =>
        formatted_transcript = TurnsRead(items, <<>>, "", <<>>)

\* the speakers of the pronunciation tokens, in token order
RECURSIVE WordSpeakers(_)
WordSpeakers(list) ==
    IF list = <<>> THEN <<>>
    ELSE (IF Head(list).type = "pronunciation"
          THEN <<ResolvedSpeaker(Head(list).start_time[1])>> ELSE <<>>)
         \o WordSpeakers(Tail(list))

\* one entry for each maximal run of equal neighbours
RECURSIVE Runs(_)
Runs(q) ==
    IF Len(q) <= 1 THEN q
    ELSE IF q[1] = q[2] THEN Runs(Tail(q))
    ELSE <<q[1]>> \o Runs(Tail(q))

SpeakerChanges(q) == Cardinality({i \in 1..(Len(q) - 1) : q[i] # q[i + 1]})

TurnSpeakers(turns) == [i \in 1..Len(turns) |-> turns[i].speaker[1]]

OneTurnPerRun(turns, speakers) ==
    /\ TurnSpeakers(turns) = Runs(speakers)
    /\ \A i \in 1..(Len(turns) - 1) : turns[i].speaker # turns[i + 1].speaker
    /\ speakers # <<>> => Len(turns) = SpeakerChanges(speakers) + 1

\* C22: the returned turns are one for each maximal run of consecutive
\* pronunciation tokens of one speaker ("Unknown" for a start time that no
\* segment holds), in token order; no two neighbours carry the same speaker
\* and, when there is a word, there is one turn more than speaker changes.
C22_GreedyTurns ==
    pc = "returned" => OneTurnPerRun(formatted_transcript, WordSpeakers(items))

C22_Witness ==
    /\ pc = "returned"
    /\ Len(items) = 4
    /\ TurnSpeakers(formatted_transcript) = <<"spk_1", "Unknown", "spk_1">>

(***************************************************************************)
(* Properties of a run of main                                             *)
(***************************************************************************)
\* the distinct speaker labels in the order of their first turn
RECURSIVE FirstAppearance(_, _)
FirstAppearance(turns, acc) ==
    IF turns = <<>> THEN acc
    ELSE FirstAppearance(Tail(turns),
            IF \E i \in 1..Len(acc) : acc[i] = Head(turns).speaker[1]
            THEN acc ELSE Append(acc, Head(turns).speaker[1]))

\* the participants as a function of the transcription output
ParticipantsByInput(t) ==
    IF IsSpeakerTranscript(t)
    THEN <<ParticipantsOf(FirstAppearance(t.speaker_segments[1], <<>>))>>
    ELSE << <<>> >>

\* main has saved notes that Bedrock generated
NotesByBedrock == main_pc = "exit_0" /\ exceptions = <<>>

\* the lines of the Participants section for the participants ps
ParticipantsSection(ps) ==
    IF HasParticipants(ps)
    THEN "## Participants\n\n" \o ParticipantLines(ps[1]) \o "\n## Full Transcript"
    ELSE "\n## Full Transcript"

\* C23: the notes that main saves are a function of the transcription output
\* and of the completion, so that two runs on the same inputs save the same
\* notes: the Participants section lists the speakers in an order fixed by
\* the input, and the owner inferred for each action item is the one
\* inferred with the participants in that order.
C23_Determinism ==
    NotesByBedrock =>
        /\ Contains(DictGet(files, "meeting_notes"),
                    ParticipantsSection(ParticipantsByInput(transcript)))
        /\ rendered = RenderedActions(action_items, ParticipantsByInput(transcript))

\* the only call that has raised is generate_notes_with_bedrock
BedrockFailedAlone == exceptions = <<"generate_notes_with_bedrock">>

\* main has returned or has called sys.exit(1)
MainEnded == main_pc \in {"exit_0", "exit_1"}

\* the notes of the local fallback for the transcript
FallbackNotes == format_simple_notes(simple_summarize(TextForSummary(transcript)))

\* C24: after an exception of the Bedrock generation main goes on with the
\* local fallback: the notes are those of simple_summarize and
\* format_simple_notes, and when nothing else has raised main ends without
\* an error and with the notes file written with these notes.
C24_BedrockFallback ==
    BedrockFailedAlone =>
        /\ main_pc \in {"fallback", "save_notes", "exit_0"}
        /\ main_pc \in {"save_notes", "exit_0"} => notes = FallbackNotes
        /\ main_pc = "exit_0" =>
              /\ DictHas(files, "meeting_notes")
              /\ DictGet(files, "meeting_notes") = FallbackNotes
              /\ DictHas(files, "transcript")

C24_Witness ==
    /\ BedrockFailedAlone
    /\ main_pc = "exit_0"
    /\ Contains(DictGet(files, "meeting_notes"),
                "## Action Items\n\n1. We will ship.\n2. Ann must pay.\n")

(***************************************************************************)
(* Properties of the owner normalisation of the parser                     *)
(***************************************************************************)
\* what the renderer shows for the action item x alone
ShownFor(x) == RenderedActions(<<x>>, participants)[1]

\* the renderer shows the owner and the deadline of the first annotation of x
\* when it renders the normalised item n
AnnotationKept(x, n) ==
    /\ ShownFor(n).owner = <<AnnotatedOwner(x)>>
    /\ ShownFor(n).deadline = AnnotatedDeadline(x)

\* C25: the normalisation of the action items at the end of
\* parse_bedrock_response is idempotent (normalising the normalised items
\* changes nothing), and for an item with an "(Owner: ...)" annotation the
\* renderer extracts from the normalised item the owner and the deadline of
\* the first annotation of the original item.
C25_IdempotentOwners ==
    pc = "owners" =>
        LET normalised == ProcessActionItems(action_items)
        IN  /\ ProcessActionItems(normalised) = normalised
            /\ \A i \in 1..Len(action_items) :
                  HasAnnotation(action_items[i]) =>
                      AnnotationKept(action_items[i], normalised[i])

(***************************************************************************)
(* Properties of the lists of key points of the renderer                   *)
(***************************************************************************)
OutputList(heading, entries, numbered) ==
    [heading |-> heading, entries |-> entries, numbered |-> numbered]

\* the lists the renderer fills from the key points, in the order in which
\* it writes them: the free-form categories, the General Points and the
\* four dedicated lists
OutputLists(c) ==
    [k \in 1..Len(c.categorized) |->
        OutputList("### " \o c.categorized[k][1], c.categorized[k][2], FALSE)]
    \o <<OutputList("### General Points", c.uncategorized, FALSE),
         OutputList("## Decisions Made", c.decisions, TRUE),
         OutputList("## Technical Details", c.technical, TRUE),
         OutputList("## Cost and Resource Considerations", c.cost, TRUE),
         OutputList("## Risks and Issues", c.risks, TRUE)>>

RECURSIVE SumOfSizes(_)
SumOfSizes(lists) ==
    IF lists = <<>> THEN 0 ELSE Len(Head(lists).entries) + SumOfSizes(Tail(lists))

\* the place of point i in its list: the number of points up to i that go
\* to the same list
PlaceOf(dest, i) == Cardinality({h \in 1..i : dest[h] = dest[i]})

\* dest sends every key point to one list, the points of a list fill it in
\* their input order, and each entry is the point or a part of it
Partitions(dest, kps, lists) ==
    /\ \A k \in 1..Len(lists) :
          Len(lists[k].entries) = Cardinality({i \in 1..Len(kps) : dest[i] = k})
    /\ \A i \in 1..Len(kps) :
          Contains(kps[i], lists[dest[i]].entries[PlaceOf(dest, i)])

\* one line per entry under the heading of the list, nothing for an empty list
RECURSIVE EntryLines(_, _, _)
EntryLines(entries, numbered, j) ==
    IF j > Len(entries) THEN ""
    ELSE (IF numbered THEN IntToStr(j) \o ". " ELSE "- ") \o entries[j] \o "\n"
         \o EntryLines(entries, numbered, j + 1)

RECURSIVE ListsText(_)
ListsText(lists) ==
    IF lists = <<>> THEN ""
    ELSE (IF Head(lists).entries = <<>> THEN ""
          ELSE Head(lists).heading \o "\n\n"
               \o EntryLines(Head(lists).entries, Head(lists).numbered, 1) \o "\n")
         \o ListsText(Tail(lists))

EndsWith(s, t) == Len(t) <= Len(s) /\ SubSeq(s, Len(s) - Len(t) + 1, Len(s)) = t

PartitionedAs(kps, lists, doc) ==
    /\ SumOfSizes(lists) = Len(kps)
    /\ \E dest \in [1..Len(kps) -> 1..Len(lists)] : Partitions(dest, kps, lists)
    /\ EndsWith(doc, "\n\n## Key Takeaways\n\n" \o ListsText(lists))

\* C26: the renderer partitions the key points: every key point goes to
\* exactly one of its lists (a free-form category, the General Points,
\* Decisions Made, Technical Details, Cost and Resource Considerations,
\* Risks and Issues), the points of a list keep their input order, the
\* sizes of the lists sum to the number of key points, and the document
\* holds one line for every entry of every list and no other line.
C26_KeyPointsPartitioned ==
    pc = "fmt_action_items" =>
        PartitionedAs(key_points,
                      OutputLists(CategorizePoints(NoPoints, key_points)), notes)

C26_Witness ==
    /\ pc = "fmt_action_items"
    /\ key_points = <<"Budget: 10", "Plain point">>
    /\ EndsWith(notes, "### Budget\n\n- 10\n\n### General Points\n\n- Plain point\n\n")

(***************************************************************************)
(* Properties of the items of a section across its subsections             *)
(***************************************************************************)
\* the text of a returned item without its "**Label**: " prefix
TextOf(x) == IF IsBold(x) THEN BoldContent(x) ELSE x

TextsOf(list) == [i \in 1..Len(list) |-> TextOf(list[i])]

Occurrences(list, x) == Cardinality({i \in 1..Len(list) : list[i] = x})

\* every element occurs as often in a as in b
SameItems(a, b) ==
    /\ Len(a) = Len(b)
    /\ \A i \in 1..Len(a) : Occurrences(a, a[i]) = Occurrences(b, a[i])

\* the items of the body of the section, read line by line, are the items
\* returned for it
NoItemLost(lines, key, numbered, returned) ==
    HasOneSection(lines, key) =>
        SameItems(TextsOf(ItemsRead(SectionLines(lines, key), numbered, FALSE)),
                  TextsOf(returned))

\* C27: every list item of the body of a Key Takeaways section (bullet
\* items) and of an Action Items section (bullet or numbered items) is,
\* once, among the items the parser extracts for that section, whatever
\* the labels of the body are, repeated ones included.
C27_NoItemLost ==
    /\ pc = "action_items" =>
          NoItemLost(Split(response_text, "\n"), "key takeaways", FALSE, key_points)
    /\ pc = "decisions" =>
          NoItemLost(Split(response_text, "\n"), "action items", TRUE, action_items)

(***************************************************************************)
(* Properties of the polling loop of transcribe_with_aws                   *)
(***************************************************************************)
JobEnded == job \in {"COMPLETED", "FAILED"}

\* the call is at the code that follows the loop, or past it
LoopLeft == transcribe_pc \in {"after_loop", "process_speaker_segments", "returned"}

TranscribeEnded == transcribe_pc \in {"returned", "raised"}

\* the value returned is the plain text, or the speaker structure when
\* diarization is enabled and the output has speaker labels
ReturnedAsRequested ==
    /\ result # <<>>
    /\ result[1].full_transcript = data[1].transcript
    /\ (result[1].speaker_segments # <<>>) = WithSpeakers(data[1])

PollingSafe ==
    /\ LoopLeft => job_status \in {"COMPLETED", "FAILED"} /\ job_status = job
    /\ transcribe_pc = "returned" => job_status = "COMPLETED" /\ ReturnedAsRequested
    /\ transcribe_pc # "returned" => result = <<>>
    /\ job_status = "FAILED" =>
          /\ transcribe_pc \in {"after_loop", "raised"}
          /\ transcribe_pc = "raised" => error = "AWS Transcribe job failed"

Pending(w) == \E i \in 1..Len(signals) : signals[i].worker = w

\* the pipeline of worker w is in progress: the worker is started and its
\* finished signal is not yet handled by transcription_finished
InProgress(w) == InRun(w) \/ Pending(w)

PipelinesInProgress == {w \in 1..Len(workers) : InProgress(w)}

\* a step that opens the warning of the input validation
Rejects ==
    /\ Len(message_boxes') = Len(message_boxes) + 1
    /\ message_boxes'[Len(message_boxes')] = "Missing Input"

\* a step that creates a worker
Starts == Len(workers') = Len(workers) + 1

StartSteps ==
    /\ Rejects => (workers' = workers /\ start_button /\ start_button')
    /\ Starts => (PipelinesInProgress = {} /\ ~start_button')

\* C29: while the pipeline of a worker is in progress (from its start by
\* start_transcription until transcription_finished has handled its
\* finished signal) the Start button is disabled, at most one pipeline is
\* in progress, a worker is started only when none is in progress, and a
\* start request that the input validation rejects creates no worker and
\* leaves the button enabled.
C29_OnePipeline ==
    /\ [](PipelinesInProgress # {} => ~start_button)
    /\ [](Cardinality(PipelinesInProgress) <= 1)
    /\ [][StartSteps]_vars

C29_Witness ==
    /\ Len(workers) = 2
    /\ workers[1].emitted = <<FALSE>>
    /\ workers[2].at = "generate"
    /\ ~start_button
    /\ progress_bar

\* worker w has emitted finished_signal exactly once when its run is over
\* and not before, with success after the files were written and without
\* success after a call has raised
EmitsOnce(w) ==
    /\ InRun(w) => workers[w].emitted = <<>>
    /\ ~InRun(w) => Len(workers[w].emitted) = 1
    /\ workers[w].emitted = <<TRUE>> =>
          (~workers[w].raised /\ workers[w].files = {"transcript", "meeting_notes"})
    /\ workers[w].raised => workers[w].emitted = <<FALSE>>

\* with no pipeline in progress the window is not in the running state
Released == PipelinesInProgress = {} => (start_button /\ ~progress_bar)

WorkersSafe == Released /\ \A w \in 1..Len(workers) : EmitsOnce(w)

Started(w) == Len(workers) >= w

Handled(w) == Started(w) /\ ~InProgress(w)

====
